---- MODULE Spec2Model ----
(***************************************************************************)
(* Qualcomm shared-memory (SMEM) heap allocator of U-Boot.                 *)
(*                                                                         *)
(* The shared region is modelled as memory: a sparse map from even byte    *)
(* addresses to 16-bit halfwords (an absent address reads 0).  Every       *)
(* structure of the driver is a view of that memory at the byte offsets    *)
(* its C declaration gives, and every function of the driver is an         *)
(* operator that reads and writes memory at the addresses the C code       *)
(* computes.                                                               *)
(*                                                                         *)
(* Integers: a size_t or unsigned value is represented by its two's        *)
(* complement representative of small magnitude (-1 is SIZE_MAX or         *)
(* QCOM_SMEM_HOST_ANY); ULT is the unsigned order on representatives.      *)
(***************************************************************************)
EXTENDS Integers, Sequences, FiniteSets, TLC

VARIABLES
    mem,        \* content of the shared memory region
    fdt,        \* the device tree's "qcom,smem" node
    __smem,     \* the one and only smem handle: << >> is NULL, <<h>> is set
    wbuf,       \* stores issued by this processor, not yet visible remotely
    pc,         \* position inside an allocation that is run step by step
    remote,     \* number of stores made by other processors so far
    done,       \* the <<host, item>> pairs whose allocation has succeeded
    last        \* the last call made and what it returned

vars == <<mem, fdt, __smem, wbuf, pc, remote, done, last>>

(***************************************************************************)
(* Bounds of the model.                                                    *)
(***************************************************************************)
\* longest list traversal followed before a walk is reported as not ending
MaxWalk == 6
\* stores other processors make to the region after boot started
MaxRemote == 1
\* width in bits given to a 32-bit quantity (u32, __le32, unsigned): TLC
\* computes with 32-bit integers, so 2^32 itself cannot be computed; a value
\* just below 2^32 is one just below 2^U32Bits.  A 64-bit quantity (size_t,
\* a pointer) is its two's complement representative and wraps at no value
\* the model reaches.
U32Bits == 26

(***************************************************************************)
(* Program constants.                                                      *)
(***************************************************************************)
SMEM_MASTER_SBL_VERSION_INDEX == 7
SMEM_GLOBAL_HEAP_VERSION == 11
SMEM_GLOBAL_PART_VERSION == 12
SMEM_ITEM_LAST_FIXED == 8
SMEM_ITEM_COUNT == 512
SMEM_HOST_APPS == 0
SMEM_GLOBAL_HOST == 65534
SMEM_HOST_COUNT == 20
SMEM_PRIVATE_CANARY == 42405
QCOM_SMEM_HOST_ANY == -1
SZ_4K == 4096
\* aux_base & AUX_BASE_MASK clears bits 1:0
AUX_BASE_ALIGN == 4

\* magic numbers, as the two little-endian halfwords of their four bytes
SMEM_PTABLE_MAGIC == <<21540, 17231>>     \* 24 54 4f 43  "$TOC"
SMEM_PART_MAGIC == <<20516, 21586>>       \* 24 50 52 54  "$PRT"
SMEM_INFO_MAGIC == <<18771, 18761>>       \* 53 49 49 49  "SIII"

\* struct smem_header
HDR_version == 64
HDR_initialized == 192
HDR_free_offset == 196
HDR_available == 200
HDR_reserved == 204
HDR_toc == 208
\* struct smem_global_entry
GE_allocated == 0
GE_offset == 4
GE_size == 8
GE_aux_base == 12
GE_sizeof == 16
\* struct smem_ptable
PT_magic == 0
PT_version == 4
PT_num_entries == 8
PT_entry == 32
\* struct smem_ptable_entry
PTE_offset == 0
PTE_size == 4
PTE_host0 == 12
PTE_host1 == 14
PTE_cacheline == 16
PTE_sizeof == 48
\* struct smem_partition_header
PH_magic == 0
PH_host0 == 4
PH_host1 == 6
PH_size == 8
PH_offset_free_uncached == 12
PH_offset_free_cached == 16
PH_sizeof == 32
\* struct smem_private_entry
PE_canary == 0
PE_item == 2
PE_size == 4
PE_padding_data == 8
PE_padding_hdr == 10
PE_sizeof == 16
\* struct smem_info
INFO_magic == 0
INFO_num_items == 16

(***************************************************************************)
(* Error codes (errno names; "OK" is 0).                                   *)
(***************************************************************************)
Errors == {"EPROBE_DEFER", "EINVAL", "EEXIST", "ENOSPC", "ENOMEM", "ENXIO",
           "ENOENT", "ENODEV"}

(***************************************************************************)
(* Machine arithmetic.                                                     *)
(***************************************************************************)
\* a < b as unsigned machine words, on two's complement representatives
ULT(a, b) == IF (a >= 0) = (b >= 0) THEN a < b ELSE b < 0
ULE(a, b) == a = b \/ ULT(a, b)

\* x & ~m in two's complement, for m >= 0
RECURSIVE AndNot(_, _)
AndNot(x, m) ==
    IF x = 0 THEN 0
    ELSE IF x = -1 THEN -1 - m
    ELSE (x % 2) * (1 - (m % 2)) + 2 * AndNot(x \div 2, m \div 2)

\* ALIGN(x, a) is ((x) + (a - 1)) & ~(a - 1) in the type of x; with a = 0 the
\* mask a - 1 is all ones and the result is 0
ALIGN(x, a) == IF a = 0 THEN 0 ELSE AndNot(x + (a - 1), a - 1)

\* conversion to u16: the low 16 bits
Trunc16(n) == n % 65536

\* conversion to u32: the low U32Bits bits
U32Mod == 2 ^ U32Bits
Trunc32(n) == n % U32Mod

(***************************************************************************)
(* Memory.                                                                 *)
(***************************************************************************)
NoMem == [a \in {} |-> 0]

Rd16(m, a) == IF a \in DOMAIN m THEN m[a] ELSE 0

\* little-endian 32-bit load
Rd32(m, a) == Trunc32(Rd16(m, a) + 65536 * (Rd16(m, a + 2) % (U32Mod \div 65536)))

Wr16(m, a, v) ==
    LET h == v % 65536
    IN  IF h = 0 THEN [x \in DOMAIN m \ {a} |-> m[x]]
        ELSE [x \in DOMAIN m \cup {a} |-> IF x = a THEN h ELSE m[x]]

\* little-endian 32-bit store of the low 32 bits of v
Wr32(m, a, v) == Wr16(Wr16(m, a, Trunc32(v)), a + 2, Trunc32(v) \div 65536)

\* a store is <<address, width, value>>; Apply makes a sequence of stores
Store(m, st) == IF st[2] = 16 THEN Wr16(m, st[1], st[3]) ELSE Wr32(m, st[1], st[3])

RECURSIVE Apply(_, _)
Apply(m, sts) == IF sts = << >> THEN m ELSE Apply(Store(m, Head(sts)), Tail(sts))

\* the memory that holds the stores sts (to distinct addresses) and 0 elsewhere
HalfwordsOf(sts) ==
    UNION { IF st[2] = 16 THEN {<<st[1], st[3] % 65536>>}
            ELSE {<<st[1], Trunc32(st[3]) % 65536>>,
                  <<st[1] + 2, Trunc32(st[3]) \div 65536>>}
            : st \in {sts[i] : i \in DOMAIN sts} }

MemOf(sts) ==
    LET hw == {h \in HalfwordsOf(sts) : h[2] # 0}
    IN  [a \in {h[1] : h \in hw} |-> (CHOOSE h \in hw : h[1] = a)[2]]

\* memcmp(p, magic, 4) == 0
MagicAt(m, a, magic) == Rd16(m, a) = magic[1] /\ Rd16(m, a + 2) = magic[2]

(***************************************************************************)
(* Partition lists.  A pointer is a byte address; pointers are compared    *)
(* as unsigned words.                                                      *)
(***************************************************************************)
phdr_to_last_uncached_entry(m, phdr) ==
    phdr + Rd32(m, phdr + PH_offset_free_uncached)

phdr_to_first_cached_entry(m, phdr, cacheline) ==
    phdr + Rd32(m, phdr + PH_size) - ALIGN(PE_sizeof, cacheline)

phdr_to_last_cached_entry(m, phdr) ==
    phdr + Rd32(m, phdr + PH_offset_free_cached)

phdr_to_first_uncached_entry(phdr) == phdr + PH_sizeof

uncached_entry_next(m, e) ==
    e + PE_sizeof + Rd16(m, e + PE_padding_hdr) + Rd32(m, e + PE_size)

cached_entry_next(m, e, cacheline) ==
    e - Rd32(m, e + PE_size) - ALIGN(PE_sizeof, cacheline)

uncached_entry_to_item(m, e) == e + PE_sizeof + Rd16(m, e + PE_padding_hdr)

\* A variant that places a cached item after its entry header, as in the
\* uncached list.
cached_entry_to_item_forward(m, e) == e + PE_sizeof + Rd16(m, e + PE_padding_hdr)

cached_entry_to_item(m, e) == e - Rd32(m, e + PE_size)

\* a NULL partition
NoPart == [virt_base |-> 0, phys_base |-> 0, cacheline |-> 0, size |-> 0]

(***************************************************************************)
(* qcom_smem_alloc_private                                                 *)
(***************************************************************************)
\* the loop of qcom_smem_alloc_private without its canary test
RECURSIVE alloc_private_walk_blind(_, _, _, _, _)
alloc_private_walk_blind(m, hdr, end, item, seen) ==
    IF ~ULT(hdr, end) THEN [why |-> "end", hdr |-> hdr, seen |-> seen]
    ELSE IF Rd16(m, hdr + PE_item) = item
         THEN [why |-> "found", hdr |-> hdr, seen |-> Append(seen, hdr)]
    ELSE alloc_private_walk_blind(m, uncached_entry_next(m, hdr), end, item,
                                  Append(seen, hdr))

\* the loop over the uncached list: where it stops and why; seen lists the
\* entries it dereferenced
RECURSIVE alloc_private_walk(_, _, _, _, _)
alloc_private_walk(m, hdr, end, item, seen) ==
    IF ~ULT(hdr, end) THEN [why |-> "end", hdr |-> hdr, seen |-> seen]
    ELSE IF Rd16(m, hdr + PE_canary) # SMEM_PRIVATE_CANARY
         THEN [why |-> "bad_canary", hdr |-> hdr, seen |-> Append(seen, hdr)]
    ELSE IF Rd16(m, hdr + PE_item) = item
         THEN [why |-> "found", hdr |-> hdr, seen |-> Append(seen, hdr)]
    ELSE alloc_private_walk(m, uncached_entry_next(m, hdr), end, item,
                            Append(seen, hdr))

\* an alloc_size that leaves out the entry header
alloc_private_size_bare(size) == ALIGN(size, 8)

\* alloc_size = sizeof(*hdr) + ALIGN(size, 8)
alloc_private_size(size) == PE_sizeof + ALIGN(size, 8)

\* the stores that write the new entry at hdr, in program order
alloc_private_entry(hdr, item, size) ==
    << <<hdr + PE_canary, 16, SMEM_PRIVATE_CANARY>>,
       <<hdr + PE_item, 16, Trunc16(item)>>,
       <<hdr + PE_size, 32, Trunc32(ALIGN(size, 8))>>,
       <<hdr + PE_padding_data, 16, Trunc16(Trunc32(ALIGN(size, 8)) - size)>>,
       <<hdr + PE_padding_hdr, 16, 0>> >>

\* le32_add_cpu(&phdr->offset_free_uncached, alloc_size), after wmb()
alloc_private_commit(m, phdr, alloc_size) ==
    <<phdr + PH_offset_free_uncached, 32,
      Trunc32(Rd32(m, phdr + PH_offset_free_uncached) + Trunc32(alloc_size))>>

\* (void *)hdr + alloc_size leaves the address space: the addition is
\* undefined.  A build either compares the wrapped address with cached or
\* takes the sum to lie beyond it
ptr_add_overflows(p, n) == n < 0 /\ p + n >= 0

\* everything up to the first store: the result, and where the entry goes;
\* beyond says that the build takes an undefined sum to lie beyond cached
alloc_private(m, part, item, size, beyond) ==
    LET phdr == part.virt_base
        p_end == phdr + part.size
        first == phdr_to_first_uncached_entry(phdr)
        end == phdr_to_last_uncached_entry(m, phdr)
        cached == phdr_to_last_cached_entry(m, phdr)
        w == alloc_private_walk(m, first, end, item, << >>)
        alloc_size == alloc_private_size(size)
        grows_into == \/ ULT(cached, w.hdr + alloc_size)
                      \/ ptr_add_overflows(w.hdr, alloc_size) /\ beyond
        ret == IF ULT(p_end, end) \/ ULT(p_end, cached) THEN "EINVAL"
               ELSE IF w.why = "bad_canary" THEN "EINVAL"
               ELSE IF w.why = "found" THEN "EEXIST"
               ELSE IF ULT(p_end, w.hdr) THEN "EINVAL"
               ELSE IF grows_into THEN "ENOSPC"
               ELSE "OK"
    IN  [ret |-> ret,
         hdr |-> w.hdr,
         alloc_size |-> alloc_size,
         seen |-> IF ULT(p_end, end) \/ ULT(p_end, cached) THEN << >> ELSE w.seen]

(***************************************************************************)
(* qcom_smem_alloc_global                                                  *)
(***************************************************************************)
toc_entry(header, item) == header + HDR_toc + GE_sizeof * item

\* alloc_global without the test of entry->allocated
alloc_global_overwrite(m, smem, item, size) ==
    LET header == smem.regions[1].virt_base
        entry == toc_entry(header, item)
        asize == ALIGN(size, 8)
    IN  [ret |-> IF ULT(Rd32(m, header + HDR_available), asize) THEN "ENOMEM"
                 ELSE "OK",
         entry |-> entry,
         asize |-> asize]

alloc_global(m, smem, item, size) ==
    LET header == smem.regions[1].virt_base
        entry == toc_entry(header, item)
        asize == ALIGN(size, 8)
    IN  [ret |-> IF Rd32(m, entry + GE_allocated) # 0 THEN "EEXIST"
                 ELSE IF ULT(Rd32(m, header + HDR_available), asize) THEN "ENOMEM"
                 ELSE "OK",
         entry |-> entry,
         asize |-> asize]

\* alloc_global that marks the entry allocated before wmb()
alloc_global_entry_allocated_first(m, header, entry, asize) ==
    << <<entry + GE_allocated, 32, 1>>,
       <<entry + GE_offset, 32, Rd32(m, header + HDR_free_offset)>>,
       <<entry + GE_size, 32, Trunc32(asize)>> >>

\* the stores made before wmb(): the entry's offset and size
alloc_global_entry(m, header, entry, asize) ==
    << <<entry + GE_offset, 32, Rd32(m, header + HDR_free_offset)>>,
       <<entry + GE_size, 32, Trunc32(asize)>> >>

\* the stores made after wmb(): allocated, free_offset, available
alloc_global_commit(m, header, entry, asize) ==
    << <<entry + GE_allocated, 32, 1>>,
       <<header + HDR_free_offset, 32,
         Trunc32(Rd32(m, header + HDR_free_offset) + Trunc32(asize))>>,
       <<header + HDR_available, 32,
         Trunc32(Rd32(m, header + HDR_available) + Trunc32(0 - asize))>> >>

(***************************************************************************)
(* qcom_smem_alloc                                                         *)
(***************************************************************************)
\* the partition the facade selects for host, or "global" for the legacy heap
select_store(smem, host) ==
    IF ULT(host, SMEM_HOST_COUNT) /\ smem.partitions[host].virt_base # 0
    THEN [kind |-> "private", part |-> smem.partitions[host]]
    ELSE IF smem.global_partition.virt_base # 0
    THEN [kind |-> "private", part |-> smem.global_partition]
    ELSE [kind |-> "global", part |-> NoPart]

\* qcom_smem_alloc without the test of the item
qcom_smem_alloc_any_item(m, handle, host, item, size, beyond) ==
    IF handle = << >> THEN
        [ret |-> "EPROBE_DEFER", kind |-> "none", part |-> NoPart, at |-> 0,
         amount |-> 0, entry |-> << >>, seen |-> << >>]
    ELSE
        LET smem == handle[1]
            st == select_store(smem, host)
        IN  IF st.kind = "private" THEN
                LET r == alloc_private(m, st.part, item, size, beyond)
                IN  [ret |-> r.ret, kind |-> "private", part |-> st.part,
                     at |-> r.hdr, amount |-> r.alloc_size,
                     entry |-> alloc_private_entry(r.hdr, item, size),
                     seen |-> r.seen]
            ELSE
                LET r == alloc_global(m, smem, item, size)
                IN  [ret |-> r.ret, kind |-> "global", part |-> NoPart,
                     at |-> r.entry, amount |-> r.asize,
                     entry |-> alloc_global_entry(m, smem.regions[1].virt_base,
                                                  r.entry, r.asize),
                     seen |-> << >>]

\* qcom_smem_alloc that validates the item before it tests __smem
qcom_smem_alloc_item_first(m, handle, host, item, size, beyond) ==
    IF ULT(item, SMEM_ITEM_LAST_FIXED)
           \/ (handle # << >> /\ ULE(handle[1].item_count, item)) THEN
        [ret |-> "EINVAL", kind |-> "none", part |-> NoPart, at |-> 0,
         amount |-> 0, entry |-> << >>, seen |-> << >>]
    ELSE IF handle = << >> THEN
        [ret |-> "EPROBE_DEFER", kind |-> "none", part |-> NoPart, at |-> 0,
         amount |-> 0, entry |-> << >>, seen |-> << >>]
    ELSE
        LET smem == handle[1]
            st == select_store(smem, host)
        IN  IF st.kind = "private" THEN
                LET r == alloc_private(m, st.part, item, size, beyond)
                IN  [ret |-> r.ret, kind |-> "private", part |-> st.part,
                     at |-> r.hdr, amount |-> r.alloc_size,
                     entry |-> alloc_private_entry(r.hdr, item, size),
                     seen |-> r.seen]
            ELSE
                LET r == alloc_global(m, smem, item, size)
                IN  [ret |-> r.ret, kind |-> "global", part |-> NoPart,
                     at |-> r.entry, amount |-> r.asize,
                     entry |-> alloc_global_entry(m, smem.regions[1].virt_base,
                                                  r.entry, r.asize),
                     seen |-> << >>]

\* the call up to its first store: result, selected store, and the stores
\* that write the new entry, which a call whose result is OK makes before the
\* barrier
qcom_smem_alloc(m, handle, host, item, size, beyond) ==
    IF handle = << >> THEN
        [ret |-> "EPROBE_DEFER", kind |-> "none", part |-> NoPart, at |-> 0,
         amount |-> 0, entry |-> << >>, seen |-> << >>]
    ELSE IF ULT(item, SMEM_ITEM_LAST_FIXED) \/ ULE(handle[1].item_count, item) THEN
        [ret |-> "EINVAL", kind |-> "none", part |-> NoPart, at |-> 0,
         amount |-> 0, entry |-> << >>, seen |-> << >>]
    ELSE
        LET smem == handle[1]
            st == select_store(smem, host)
        IN  IF st.kind = "private" THEN
                LET r == alloc_private(m, st.part, item, size, beyond)
                IN  [ret |-> r.ret, kind |-> "private", part |-> st.part,
                     at |-> r.hdr, amount |-> r.alloc_size,
                     entry |-> alloc_private_entry(r.hdr, item, size),
                     seen |-> r.seen]
            ELSE
                LET r == alloc_global(m, smem, item, size)
                IN  [ret |-> r.ret, kind |-> "global", part |-> NoPart,
                     at |-> r.entry, amount |-> r.asize,
                     entry |-> alloc_global_entry(m, smem.regions[1].virt_base,
                                                  r.entry, r.asize),
                     seen |-> << >>]

\* the stores a successful call makes after the barrier, read from memory m
qcom_smem_alloc_commit(m, handle, r) ==
    IF r.kind = "private"
    THEN << alloc_private_commit(m, r.part.virt_base, r.amount) >>
    ELSE alloc_global_commit(m, handle[1].regions[1].virt_base, r.at, r.amount)

\* qcom_smem_alloc that writes the entry before it knows the result
qcom_smem_alloc_mem_early(m, handle, r) ==
    IF r.ret # "OK" THEN Apply(m, r.entry)
    ELSE LET m1 == Apply(m, r.entry)
         IN  Apply(m1, qcom_smem_alloc_commit(m1, handle, r))

\* memory after the whole call: every error return precedes the first store
qcom_smem_alloc_mem(m, handle, r) ==
    IF r.ret # "OK" THEN m
    ELSE LET m1 == Apply(m, r.entry)
         IN  Apply(m1, qcom_smem_alloc_commit(m1, handle, r))

(***************************************************************************)
(* qcom_smem_get_global                                                    *)
(***************************************************************************)
NoGet == [ret |-> "EPROBE_DEFER", ptr |-> 0, size |-> 0, seen |-> << >>,
          hang |-> FALSE, store |-> 0]

GetErr(e, seen) == [NoGet EXCEPT !.ret = e, !.seen = seen]

\* the loop over the regions without the test of the entry's end
RECURSIVE get_global_region_any_end(_, _, _, _, _, _)
get_global_region_any_end(m, smem, entry, aux_base, want, i) ==
    IF i > smem.num_regions THEN GetErr("ENOENT", << >>)
    ELSE LET region == smem.regions[i]
             e_size == Rd32(m, entry + GE_size)
             entry_offset == Rd32(m, entry + GE_offset)
         IN  IF Trunc32(region.aux_base) = aux_base \/ aux_base = 0
             THEN [ret |-> "OK", ptr |-> region.virt_base + entry_offset,
                   size |-> IF want THEN e_size ELSE 0, seen |-> << >>,
                   hang |-> FALSE, store |-> 0]
             ELSE get_global_region_any_end(m, smem, entry, aux_base, want, i + 1)

\* the loop over the regions, from region i on
RECURSIVE get_global_region(_, _, _, _, _, _)
get_global_region(m, smem, entry, aux_base, want, i) ==
    IF i > smem.num_regions THEN GetErr("ENOENT", << >>)
    ELSE LET region == smem.regions[i]
             e_size == Rd32(m, entry + GE_size)
             entry_offset == Rd32(m, entry + GE_offset)
         IN  IF Trunc32(region.aux_base) = aux_base \/ aux_base = 0
             THEN IF ULT(region.size, e_size + entry_offset)
                  THEN GetErr("EINVAL", << >>)
                  ELSE [ret |-> "OK", ptr |-> region.virt_base + entry_offset,
                        size |-> IF want THEN e_size ELSE 0, seen |-> << >>,
                        hang |-> FALSE, store |-> 0]
             ELSE get_global_region(m, smem, entry, aux_base, want, i + 1)

get_global(m, smem, item, want) ==
    LET header == smem.regions[1].virt_base
        entry == toc_entry(header, item)
        raw == Rd32(m, entry + GE_aux_base)
        aux_base == raw - (raw % AUX_BASE_ALIGN)
    IN  IF Rd32(m, entry + GE_allocated) = 0 THEN GetErr("ENXIO", << >>)
        ELSE get_global_region(m, smem, entry, aux_base, want, 1)

(***************************************************************************)
(* qcom_smem_get_private                                                   *)
(***************************************************************************)
\* the size reported for a matching entry e when the caller passed a size
\* pointer (want): an error, or e_size - padding
entry_size(m, part, e, want) ==
    LET e_size == Rd32(m, e + PE_size)
        padding_data == Rd16(m, e + PE_padding_data)
    IN  IF ~want THEN [ok |-> TRUE, size |-> 0]
        ELSE IF ULT(part.size, e_size) \/ ULT(e_size, padding_data)
        THEN [ok |-> FALSE, size |-> 0]
        ELSE [ok |-> TRUE, size |-> e_size - padding_data]

\* the loop over the uncached list
RECURSIVE get_private_uncached(_, _, _, _, _, _, _)
get_private_uncached(m, part, e, end, item, want, seen) ==
    LET p_end == part.virt_base + part.size
    IN  IF ~ULT(e, end) THEN [GetErr("ENOENT", seen) EXCEPT !.ptr = e]
        ELSE IF Rd16(m, e + PE_canary) # SMEM_PRIVATE_CANARY
             THEN GetErr("EINVAL", Append(seen, e))
        ELSE IF Rd16(m, e + PE_item) = item
             THEN LET sz == entry_size(m, part, e, want)
                      item_ptr == uncached_entry_to_item(m, e)
                  IN  IF ~sz.ok \/ ULT(p_end, item_ptr)
                      THEN GetErr("EINVAL", Append(seen, e))
                      ELSE [ret |-> "OK", ptr |-> item_ptr, size |-> sz.size,
                            seen |-> Append(seen, e), hang |-> FALSE, store |-> 0]
        ELSE get_private_uncached(m, part, uncached_entry_next(m, e), end, item,
                                  want, Append(seen, e))

\* the loop over the cached list; a loop that is still running after MaxWalk
\* entries is reported as hanging
RECURSIVE get_private_cached(_, _, _, _, _, _, _, _)
get_private_cached(m, part, e, end, item, want, seen, n) ==
    LET phdr == part.virt_base
    IN  IF ~ULT(end, e)
        THEN IF ULT(e, phdr) THEN GetErr("EINVAL", seen)
             ELSE GetErr("ENOENT", seen)
        ELSE IF n >= MaxWalk
             THEN [GetErr("HANG", seen) EXCEPT !.hang = TRUE]
        ELSE IF Rd16(m, e + PE_canary) # SMEM_PRIVATE_CANARY
             THEN GetErr("EINVAL", Append(seen, e))
        ELSE IF Rd16(m, e + PE_item) = item
             THEN LET sz == entry_size(m, part, e, want)
                      item_ptr == cached_entry_to_item(m, e)
                  IN  IF ~sz.ok \/ ULT(item_ptr, phdr)
                      THEN GetErr("EINVAL", Append(seen, e))
                      ELSE [ret |-> "OK", ptr |-> item_ptr, size |-> sz.size,
                            seen |-> Append(seen, e), hang |-> FALSE, store |-> 0]
        ELSE get_private_cached(m, part, cached_entry_next(m, e, part.cacheline),
                                end, item, want, Append(seen, e), n + 1)

\* get_private that searches the cached list before the uncached one
get_private_cached_first(m, part, item, want) ==
    LET phdr == part.virt_base
        p_end == phdr + part.size
        first == phdr_to_first_cached_entry(m, phdr, part.cacheline)
        end == phdr_to_last_cached_entry(m, phdr)
        c == get_private_cached(m, part, first, end, item, want, << >>, 0)
        u == get_private_uncached(m, part, phdr_to_first_uncached_entry(phdr),
                                  phdr_to_last_uncached_entry(m, phdr), item,
                                  want, c.seen)
    IN  IF ULT(first, phdr) \/ ULT(p_end, end) THEN GetErr("EINVAL", << >>)
        ELSE IF c.ret # "ENOENT" THEN c
        ELSE IF u.ret # "ENOENT" THEN u
        ELSE GetErr("ENOENT", u.seen)

get_private(m, part, item, want) ==
    LET phdr == part.virt_base
        p_end == phdr + part.size
        u == get_private_uncached(m, part, phdr_to_first_uncached_entry(phdr),
                                  phdr_to_last_uncached_entry(m, phdr), item,
                                  want, << >>)
        first == phdr_to_first_cached_entry(m, phdr, part.cacheline)
        end == phdr_to_last_cached_entry(m, phdr)
    IN  IF u.ret # "ENOENT" THEN u
        ELSE IF ULT(p_end, u.ptr) THEN GetErr("EINVAL", u.seen)
        ELSE IF ULT(first, phdr) \/ ULT(p_end, end) THEN GetErr("EINVAL", u.seen)
        ELSE get_private_cached(m, part, first, end, item, want, u.seen, 0)

(***************************************************************************)
(* qcom_smem_get                                                           *)
(***************************************************************************)
\* qcom_smem_get that prefers the global partition to the host's own
qcom_smem_get_global_first(m, handle, host, item, want) ==
    IF handle = << >> THEN NoGet
    ELSE IF ULE(handle[1].item_count, item) THEN GetErr("EINVAL", << >>)
    ELSE LET smem == handle[1]
         IN  IF smem.global_partition.virt_base # 0
             THEN [get_private(m, smem.global_partition, item, want)
                       EXCEPT !.store = smem.global_partition.virt_base]
             ELSE IF ULT(host, SMEM_HOST_COUNT)
                         /\ smem.partitions[host].virt_base # 0
             THEN [get_private(m, smem.partitions[host], item, want)
                       EXCEPT !.store = smem.partitions[host].virt_base]
             ELSE [get_global(m, smem, item, want)
                       EXCEPT !.store = smem.regions[1].virt_base]

\* void *qcom_smem_get(unsigned host, unsigned item, size_t *size); store is
\* the header of the partition or of the region that the call went to
qcom_smem_get(m, handle, host, item, want) ==
    IF handle = << >> THEN NoGet
    ELSE IF ULE(handle[1].item_count, item) THEN GetErr("EINVAL", << >>)
    ELSE LET smem == handle[1]
         IN  IF ULT(host, SMEM_HOST_COUNT) /\ smem.partitions[host].virt_base # 0
             THEN [get_private(m, smem.partitions[host], item, want)
                       EXCEPT !.store = smem.partitions[host].virt_base]
             ELSE IF smem.global_partition.virt_base # 0
             THEN [get_private(m, smem.global_partition, item, want)
                       EXCEPT !.store = smem.global_partition.virt_base]
             ELSE [get_global(m, smem, item, want)
                       EXCEPT !.store = smem.regions[1].virt_base]

\* the conversion of an unsigned to the int that a function returns
ToInt(n) == IF n >= U32Mod \div 2 THEN n - U32Mod ELSE n

\* the free bytes of a partition: the distance of its two free offsets
partition_free_space(m, part) ==
    LET phdr == part.virt_base
        ret == Trunc32(Rd32(m, phdr + PH_offset_free_cached)
                       - Rd32(m, phdr + PH_offset_free_uncached))
    IN  IF ret > part.size THEN [ret |-> "EINVAL", value |-> 0, at |-> phdr]
        ELSE [ret |-> "OK", value |-> ToInt(ret), at |-> phdr]

\* int qcom_smem_get_free_space(unsigned host): the result, the value when
\* the result is not an error, and the header that was read
qcom_smem_get_free_space(m, handle, host) ==
    IF handle = << >> THEN [ret |-> "EPROBE_DEFER", value |-> 0, at |-> 0]
    ELSE LET smem == handle[1]
             header == smem.regions[1].virt_base
             ret == Rd32(m, header + HDR_available)
         IN  IF ULT(host, SMEM_HOST_COUNT) /\ smem.partitions[host].virt_base # 0
             THEN partition_free_space(m, smem.partitions[host])
             ELSE IF smem.global_partition.virt_base # 0
             THEN partition_free_space(m, smem.global_partition)
             ELSE IF ret > smem.regions[1].size
             THEN [ret |-> "EINVAL", value |-> 0, at |-> header]
             ELSE [ret |-> "OK", value |-> ToInt(ret), at |-> header]

(***************************************************************************)
(* qcom_smem_virt_to_phys                                                  *)
(***************************************************************************)
addr_in_range(base, size, addr) ==
    base # 0 /\ ~ULT(addr, base) /\ ULT(addr, base + size)

\* the loop over the private partitions from partition i on: the physical
\* address, or -1 when no partition holds p
RECURSIVE virt_to_phys_partitions(_, _, _)
virt_to_phys_partitions(smem, p, i) ==
    IF i >= SMEM_HOST_COUNT THEN -1
    ELSE LET part == smem.partitions[i]
         IN  IF addr_in_range(part.virt_base, part.size, p)
             THEN part.phys_base + (p - part.virt_base)
             ELSE virt_to_phys_partitions(smem, p, i + 1)

\* the loop over the regions from region i on; 0 when no region holds p
RECURSIVE virt_to_phys_regions(_, _, _)
virt_to_phys_regions(smem, p, i) ==
    IF i > smem.num_regions THEN 0
    ELSE LET area == smem.regions[i]
         IN  IF addr_in_range(area.virt_base, area.size, p)
             THEN area.aux_base + (p - area.virt_base)
             ELSE virt_to_phys_regions(smem, p, i + 1)

\* phys_addr_t qcom_smem_virt_to_phys(void *p), for __smem that is not NULL
qcom_smem_virt_to_phys(smem, p) ==
    LET part == smem.global_partition
    IN  IF virt_to_phys_partitions(smem, p, 0) # -1
        THEN virt_to_phys_partitions(smem, p, 0)
        ELSE IF addr_in_range(part.virt_base, part.size, p)
        THEN part.phys_base + (p - part.virt_base)
        ELSE virt_to_phys_regions(smem, p, 1)

(***************************************************************************)
(* Initialisation.                                                         *)
(***************************************************************************)
FDT_ADDR_T_NONE == -1

qcom_smem_get_sbl_version(m, smem) ==
    Rd32(m, smem.regions[1].virt_base + HDR_version
            + 4 * SMEM_MASTER_SBL_VERSION_INDEX)

\* the partition table, or the error that stands for it
qcom_smem_get_ptable(m, smem) ==
    IF ~MagicAt(m, smem.ptable + PT_magic, SMEM_PTABLE_MAGIC) THEN "ENOENT"
    ELSE IF Rd32(m, smem.ptable + PT_version) # 1 THEN "EINVAL"
    ELSE "OK"

ptable_entry(smem, i) == smem.ptable + PT_entry + PTE_sizeof * i

qcom_smem_get_item_count(m, smem) ==
    LET info == ptable_entry(smem, Rd32(m, smem.ptable + PT_num_entries))
    IN  IF qcom_smem_get_ptable(m, smem) # "OK" THEN SMEM_ITEM_COUNT
        ELSE IF ~MagicAt(m, info + INFO_magic, SMEM_INFO_MAGIC) THEN SMEM_ITEM_COUNT
        ELSE Rd16(m, info + INFO_num_items)

\* qcom_smem_partition_header without the comparison of the sizes
qcom_smem_partition_header_any_size(m, smem, entry, host0, host1) ==
    LET header == smem.regions[1].aux_base + Rd32(m, entry + PTE_offset)
        size == Rd32(m, header + PH_size)
    IN  IF header = 0 THEN 0
        ELSE IF ~MagicAt(m, header + PH_magic, SMEM_PART_MAGIC) THEN 0
        ELSE IF host0 # Rd16(m, header + PH_host0) THEN 0
        ELSE IF host1 # Rd16(m, header + PH_host1) THEN 0
        ELSE IF ULT(size, Rd32(m, header + PH_offset_free_uncached)) THEN 0
        ELSE header

\* the validated header of the partition of a table entry, or 0 (NULL)
qcom_smem_partition_header(m, smem, entry, host0, host1) ==
    LET header == smem.regions[1].aux_base + Rd32(m, entry + PTE_offset)
        size == Rd32(m, header + PH_size)
    IN  IF header = 0 THEN 0
        ELSE IF ~MagicAt(m, header + PH_magic, SMEM_PART_MAGIC) THEN 0
        ELSE IF host0 # Rd16(m, header + PH_host0) THEN 0
        ELSE IF host1 # Rd16(m, header + PH_host1) THEN 0
        ELSE IF size # Rd32(m, entry + PTE_size) THEN 0
        ELSE IF ULT(size, Rd32(m, header + PH_offset_free_uncached)) THEN 0
        ELSE header

\* the struct smem_partition filled in from a table entry
partition_of(m, smem, entry, header) ==
    [virt_base |-> header,
     phys_base |-> smem.regions[1].aux_base + Rd32(m, entry + PTE_offset),
     size |-> Rd32(m, entry + PTE_size),
     cacheline |-> Rd32(m, entry + PTE_cacheline)]

\* the search for the global entry from entry i on: its index, or -1
RECURSIVE find_global_entry(_, _, _)
find_global_entry(m, smem, i) ==
    LET entry == ptable_entry(smem, i)
    IN  IF ~ULT(i, Rd32(m, smem.ptable + PT_num_entries)) THEN -1
        ELSE IF Rd32(m, entry + PTE_offset) # 0
                /\ Rd32(m, entry + PTE_size) # 0
                /\ Rd16(m, entry + PTE_host0) = SMEM_GLOBAL_HOST
                /\ Rd16(m, entry + PTE_host1) = SMEM_GLOBAL_HOST
             THEN i
        ELSE find_global_entry(m, smem, i + 1)

qcom_smem_set_global_partition(m, smem) ==
    LET i == find_global_entry(m, smem, 0)
        entry == ptable_entry(smem, i)
        header == qcom_smem_partition_header(m, smem, entry, SMEM_GLOBAL_HOST,
                                             SMEM_GLOBAL_HOST)
    IN  IF smem.global_partition.virt_base # 0 THEN [ret |-> "EINVAL", smem |-> smem]
        ELSE IF qcom_smem_get_ptable(m, smem) # "OK"
             THEN [ret |-> qcom_smem_get_ptable(m, smem), smem |-> smem]
        ELSE IF i = -1 THEN [ret |-> "EINVAL", smem |-> smem]
        ELSE IF header = 0 THEN [ret |-> "EINVAL", smem |-> smem]
        ELSE [ret |-> "OK",
              smem |-> [smem EXCEPT !.global_partition =
                                        partition_of(m, smem, entry, header)]]

\* the loop of qcom_smem_enumerate_partitions passing over an entry whose
\* header is not valid
RECURSIVE enumerate_from_skip(_, _, _, _)
enumerate_from_skip(m, smem, local_host, i) ==
    LET entry == ptable_entry(smem, i)
        host0 == Rd16(m, entry + PTE_host0)
        host1 == Rd16(m, entry + PTE_host1)
        remote_host == IF host0 = local_host THEN host1 ELSE host0
        header == qcom_smem_partition_header(m, smem, entry, host0, host1)
    IN  IF ~ULT(i, Rd32(m, smem.ptable + PT_num_entries))
        THEN [ret |-> "OK", smem |-> smem]
        ELSE IF Rd32(m, entry + PTE_offset) = 0 \/ Rd32(m, entry + PTE_size) = 0
        THEN enumerate_from_skip(m, smem, local_host, i + 1)
        ELSE IF host0 # local_host /\ host1 # local_host
        THEN enumerate_from_skip(m, smem, local_host, i + 1)
        ELSE IF remote_host >= SMEM_HOST_COUNT THEN [ret |-> "EINVAL", smem |-> smem]
        ELSE IF smem.partitions[remote_host].virt_base # 0
        THEN [ret |-> "EINVAL", smem |-> smem]
        ELSE IF header = 0 THEN enumerate_from_skip(m, smem, local_host, i + 1)
        ELSE enumerate_from_skip(m,
                 [smem EXCEPT !.partitions[remote_host] =
                                  partition_of(m, smem, entry, header)],
                 local_host, i + 1)

\* a loop that lets a later entry of a pair replace an earlier one
RECURSIVE enumerate_from_last(_, _, _, _)
enumerate_from_last(m, smem, local_host, i) ==
    LET entry == ptable_entry(smem, i)
        host0 == Rd16(m, entry + PTE_host0)
        host1 == Rd16(m, entry + PTE_host1)
        remote_host == IF host0 = local_host THEN host1 ELSE host0
        header == qcom_smem_partition_header(m, smem, entry, host0, host1)
    IN  IF ~ULT(i, Rd32(m, smem.ptable + PT_num_entries))
        THEN [ret |-> "OK", smem |-> smem]
        ELSE IF Rd32(m, entry + PTE_offset) = 0 \/ Rd32(m, entry + PTE_size) = 0
        THEN enumerate_from_last(m, smem, local_host, i + 1)
        ELSE IF host0 # local_host /\ host1 # local_host
        THEN enumerate_from_last(m, smem, local_host, i + 1)
        ELSE IF remote_host >= SMEM_HOST_COUNT THEN [ret |-> "EINVAL", smem |-> smem]
        ELSE IF header = 0 THEN [ret |-> "EINVAL", smem |-> smem]
        ELSE enumerate_from_last(m,
                 [smem EXCEPT !.partitions[remote_host] =
                                  partition_of(m, smem, entry, header)],
                 local_host, i + 1)

\* the loop of qcom_smem_enumerate_partitions from entry i on
RECURSIVE enumerate_from(_, _, _, _)
enumerate_from(m, smem, local_host, i) ==
    LET entry == ptable_entry(smem, i)
        host0 == Rd16(m, entry + PTE_host0)
        host1 == Rd16(m, entry + PTE_host1)
        remote_host == IF host0 = local_host THEN host1 ELSE host0
        header == qcom_smem_partition_header(m, smem, entry, host0, host1)
    IN  IF ~ULT(i, Rd32(m, smem.ptable + PT_num_entries))
        THEN [ret |-> "OK", smem |-> smem]
        ELSE IF Rd32(m, entry + PTE_offset) = 0 \/ Rd32(m, entry + PTE_size) = 0
        THEN enumerate_from(m, smem, local_host, i + 1)
        ELSE IF host0 # local_host /\ host1 # local_host
        THEN enumerate_from(m, smem, local_host, i + 1)
        ELSE IF remote_host >= SMEM_HOST_COUNT THEN [ret |-> "EINVAL", smem |-> smem]
        ELSE IF smem.partitions[remote_host].virt_base # 0
        THEN [ret |-> "EINVAL", smem |-> smem]
        ELSE IF header = 0 THEN [ret |-> "EINVAL", smem |-> smem]
        ELSE enumerate_from(m,
                 [smem EXCEPT !.partitions[remote_host] =
                                  partition_of(m, smem, entry, header)],
                 local_host, i + 1)

qcom_smem_enumerate_partitions(m, smem, local_host) ==
    IF qcom_smem_get_ptable(m, smem) # "OK"
    THEN [ret |-> qcom_smem_get_ptable(m, smem), smem |-> smem]
    ELSE enumerate_from(m, smem, local_host, 0)

\* region gets its mapping, smem its partition table pointer
qcom_smem_map_toc(smem) ==
    LET region == smem.regions[1]
        ptable_start == Trunc32(region.aux_base + region.size - SZ_4K)
        mapped == [smem EXCEPT !.regions[1].virt_base = region.aux_base,
                               !.ptable = ptable_start]
    IN  [ret |-> IF region.aux_base = 0 \/ ptable_start = 0 THEN "ENOMEM" ELSE "OK",
         smem |-> mapped]

qcom_smem_map_global(smem, size) ==
    [smem EXCEPT !.regions[1].size = size,
                 !.regions[1].virt_base = smem.regions[1].aux_base]

\* kzalloc'ed struct qcom_smem with one region
NewSmem ==
    [item_count |-> 0, ptable |-> 0, global_partition |-> NoPart,
     partitions |-> [h \in 0 .. SMEM_HOST_COUNT - 1 |-> NoPart],
     num_regions |-> 1,
     regions |-> << [aux_base |-> 0, virt_base |-> 0, size |-> 0] >>]

\* the version switch of qcom_smem_init taking the item count of version 11
\* from the partition table
init_version_table_count(m, smem) ==
    LET header == smem.regions[1].virt_base
        size == Trunc32(Rd32(m, header + HDR_available)
                        + Rd32(m, header + HDR_free_offset))
        major == qcom_smem_get_sbl_version(m, smem) \div 65536
        g == qcom_smem_set_global_partition(m, smem)
    IN  IF major = SMEM_GLOBAL_PART_VERSION
        THEN IF g.ret # "OK" THEN g
             ELSE [ret |-> "OK",
                   smem |-> [g.smem EXCEPT !.item_count =
                                               qcom_smem_get_item_count(m, g.smem)]]
        ELSE IF major = SMEM_GLOBAL_HEAP_VERSION
        THEN [ret |-> "OK",
              smem |-> [qcom_smem_map_global(smem, size)
                            EXCEPT !.item_count = qcom_smem_get_item_count(m, smem)]]
        ELSE [ret |-> "EINVAL", smem |-> smem]

\* the version switch with the legacy case as its default
init_version_default_legacy(m, smem) ==
    LET header == smem.regions[1].virt_base
        size == Trunc32(Rd32(m, header + HDR_available)
                        + Rd32(m, header + HDR_free_offset))
        major == qcom_smem_get_sbl_version(m, smem) \div 65536
        g == qcom_smem_set_global_partition(m, smem)
    IN  IF major = SMEM_GLOBAL_PART_VERSION
        THEN IF g.ret # "OK" THEN g
             ELSE [ret |-> "OK",
                   smem |-> [g.smem EXCEPT !.item_count =
                                               qcom_smem_get_item_count(m, g.smem)]]
        ELSE [ret |-> "OK",
              smem |-> [qcom_smem_map_global(smem, size)
                            EXCEPT !.item_count = SMEM_ITEM_COUNT]]

\* the version switch of qcom_smem_init
init_version(m, smem) ==
    LET header == smem.regions[1].virt_base
        size == Trunc32(Rd32(m, header + HDR_available)
                        + Rd32(m, header + HDR_free_offset))
        major == qcom_smem_get_sbl_version(m, smem) \div 65536
        g == qcom_smem_set_global_partition(m, smem)
    IN  IF major = SMEM_GLOBAL_PART_VERSION
        THEN IF g.ret # "OK" THEN g
             ELSE [ret |-> "OK",
                   smem |-> [g.smem EXCEPT !.item_count =
                                               qcom_smem_get_item_count(m, g.smem)]]
        ELSE IF major = SMEM_GLOBAL_HEAP_VERSION
        THEN [ret |-> "OK",
              smem |-> [qcom_smem_map_global(smem, size)
                            EXCEPT !.item_count = SMEM_ITEM_COUNT]]
        ELSE [ret |-> "EINVAL", smem |-> smem]

\* qcom_smem_init without the test of the header's flags
qcom_smem_init_any_header(m, dt, old) ==
    LET s0 == [NewSmem EXCEPT !.regions[1].aux_base = dt.addr,
                              !.regions[1].size = dt.size]
        toc == qcom_smem_map_toc(s0)
        v == init_version(m, toc.smem)
        en == qcom_smem_enumerate_partitions(m, v.smem, SMEM_HOST_APPS)
    IN  IF ~dt.node THEN [ret |-> "ENODEV", handle |-> old, stage |-> "node"]
        ELSE IF dt.addr = FDT_ADDR_T_NONE
        THEN [ret |-> "EINVAL", handle |-> old, stage |-> "addr"]
        ELSE IF toc.ret # "OK" THEN [ret |-> toc.ret, handle |-> old, stage |-> "toc"]
        ELSE IF v.ret # "OK" THEN [ret |-> v.ret, handle |-> old, stage |-> "version"]
        ELSE IF en.ret \notin {"OK", "ENOENT"}
        THEN [ret |-> en.ret, handle |-> old, stage |-> "enumerate"]
        ELSE [ret |-> "OK", handle |-> <<en.smem>>, stage |-> "done"]

\* qcom_smem_init that publishes the handle although the enumeration of the
\* partitions failed
qcom_smem_init_partial(m, dt, old) ==
    LET s0 == [NewSmem EXCEPT !.regions[1].aux_base = dt.addr,
                              !.regions[1].size = dt.size]
        toc == qcom_smem_map_toc(s0)
        header == toc.smem.regions[1].virt_base
        v == init_version(m, toc.smem)
        en == qcom_smem_enumerate_partitions(m, v.smem, SMEM_HOST_APPS)
    IN  IF ~dt.node THEN [ret |-> "ENODEV", handle |-> old, stage |-> "node"]
        ELSE IF dt.addr = FDT_ADDR_T_NONE
        THEN [ret |-> "EINVAL", handle |-> old, stage |-> "addr"]
        ELSE IF toc.ret # "OK" THEN [ret |-> toc.ret, handle |-> old, stage |-> "toc"]
        ELSE IF Rd32(m, header + HDR_initialized) # 1
                \/ Rd32(m, header + HDR_reserved) # 0
        THEN [ret |-> "EINVAL", handle |-> old, stage |-> "header"]
        ELSE IF v.ret # "OK" THEN [ret |-> v.ret, handle |-> old, stage |-> "version"]
        ELSE IF en.ret \notin {"OK", "ENOENT"}
        THEN [ret |-> en.ret, handle |-> <<en.smem>>, stage |-> "enumerate"]
        ELSE [ret |-> "OK", handle |-> <<en.smem>>, stage |-> "done"]

\* the whole call: its result, the handle it leaves in __smem, and the last
\* step it reached: the device tree node, its address, the mapping, the
\* flags of the header, the version switch, the enumeration of the
\* partitions, or the assignment of __smem
qcom_smem_init(m, dt, old) ==
    LET s0 == [NewSmem EXCEPT !.regions[1].aux_base = dt.addr,
                              !.regions[1].size = dt.size]
        toc == qcom_smem_map_toc(s0)
        header == toc.smem.regions[1].virt_base
        v == init_version(m, toc.smem)
        en == qcom_smem_enumerate_partitions(m, v.smem, SMEM_HOST_APPS)
    IN  IF ~dt.node THEN [ret |-> "ENODEV", handle |-> old, stage |-> "node"]
        ELSE IF dt.addr = FDT_ADDR_T_NONE
        THEN [ret |-> "EINVAL", handle |-> old, stage |-> "addr"]
        ELSE IF toc.ret # "OK" THEN [ret |-> toc.ret, handle |-> old, stage |-> "toc"]
        ELSE IF Rd32(m, header + HDR_initialized) # 1
                \/ Rd32(m, header + HDR_reserved) # 0
        THEN [ret |-> "EINVAL", handle |-> old, stage |-> "header"]
        ELSE IF v.ret # "OK" THEN [ret |-> v.ret, handle |-> old, stage |-> "version"]
        ELSE IF en.ret \notin {"OK", "ENOENT"}
        THEN [ret |-> en.ret, handle |-> old, stage |-> "enumerate"]
        ELSE [ret |-> "OK", handle |-> <<en.smem>>, stage |-> "done"]

\* qcom_smem_is_available: __smem is not NULL
qcom_smem_is_available(handle) == handle # << >>

(***************************************************************************)
(* The region as the boot firmware leaves it.                              *)
(***************************************************************************)
\* reg of the device tree node: 1 MiB at 1 MiB
RegionBase == 1024 * 1024
RegionSize == 1024 * 1024
PtableAt == RegionBase + RegionSize - SZ_4K
\* sizeof(struct smem_header)
HDR_sizeof == HDR_toc + GE_sizeof * SMEM_ITEM_COUNT
\* offsets, within the region, of the two partitions, and their size
GlobalOff == 4 * SZ_4K
PrivateOff == 5 * SZ_4K
PartSize == 8 * PE_sizeof
\* the remote processor that shares a private partition with SMEM_HOST_APPS
RemoteHost == SMEM_HOST_APPS + 1

ImgHeader(version, free_offset, available) ==
    << <<RegionBase + HDR_version + 4 * SMEM_MASTER_SBL_VERSION_INDEX, 32,
         65536 * version>>,
       <<RegionBase + HDR_initialized, 32, 1>>,
       <<RegionBase + HDR_free_offset, 32, free_offset>>,
       <<RegionBase + HDR_available, 32, available>> >>

ImgTocEntry(item, offset, size) ==
    << <<toc_entry(RegionBase, item) + GE_allocated, 32, 1>>,
       <<toc_entry(RegionBase, item) + GE_offset, 32, offset>>,
       <<toc_entry(RegionBase, item) + GE_size, 32, size>> >>

ImgPtable(n, num_items) ==
    << <<PtableAt + PT_magic, 16, SMEM_PTABLE_MAGIC[1]>>,
       <<PtableAt + PT_magic + 2, 16, SMEM_PTABLE_MAGIC[2]>>,
       <<PtableAt + PT_version, 32, 1>>,
       <<PtableAt + PT_num_entries, 32, n>>,
       <<PtableAt + PT_entry + PTE_sizeof * n + INFO_magic, 16, SMEM_INFO_MAGIC[1]>>,
       <<PtableAt + PT_entry + PTE_sizeof * n + INFO_magic + 2, 16,
         SMEM_INFO_MAGIC[2]>>,
       <<PtableAt + PT_entry + PTE_sizeof * n + INFO_num_items, 16, num_items>> >>

ImgPtEntry(i, offset, size, host0, host1, cacheline) ==
    LET e == PtableAt + PT_entry + PTE_sizeof * i
    IN  << <<e + PTE_offset, 32, offset>>, <<e + PTE_size, 32, size>>,
           <<e + PTE_host0, 16, host0>>, <<e + PTE_host1, 16, host1>>,
           <<e + PTE_cacheline, 32, cacheline>> >>

ImgPartHdr(offset, host0, host1, size, free_uncached, free_cached) ==
    LET h == RegionBase + offset
    IN  << <<h + PH_magic, 16, SMEM_PART_MAGIC[1]>>,
           <<h + PH_magic + 2, 16, SMEM_PART_MAGIC[2]>>,
           <<h + PH_host0, 16, host0>>, <<h + PH_host1, 16, host1>>,
           <<h + PH_size, 32, size>>,
           <<h + PH_offset_free_uncached, 32, free_uncached>>,
           <<h + PH_offset_free_cached, 32, free_cached>> >>

ImgEntry(e, item, size, padding_data) ==
    << <<e + PE_canary, 16, SMEM_PRIVATE_CANARY>>, <<e + PE_item, 16, item>>,
       <<e + PE_size, 32, size>>, <<e + PE_padding_data, 16, padding_data>> >>

\* Partitioned heap (version 12).  Table: an unused entry, the global
\* partition and the partition shared with RemoteHost, cacheline 32.
\* Global partition: item 10 (8 bytes) in the uncached list, item 11 (8 bytes)
\* in the cached list, 32 bytes free.  Private partition: item 10 (16 bytes)
\* in the cached list, 48 bytes free.
ImagePart ==
    MemOf(ImgHeader(SMEM_GLOBAL_PART_VERSION, HDR_sizeof, 16)
          \o ImgPtable(3, SMEM_ITEM_COUNT)
          \o ImgPtEntry(1, GlobalOff, PartSize, SMEM_GLOBAL_HOST, SMEM_GLOBAL_HOST, 32)
          \o ImgPtEntry(2, PrivateOff, PartSize, SMEM_HOST_APPS, RemoteHost, 32)
          \o ImgPartHdr(GlobalOff, SMEM_GLOBAL_HOST, SMEM_GLOBAL_HOST, PartSize, 56, 88)
          \o ImgEntry(RegionBase + GlobalOff + 32, 10, 8, 0)
          \o ImgEntry(RegionBase + GlobalOff + 96, 11, 8, 0)
          \o ImgPartHdr(PrivateOff, SMEM_HOST_APPS, RemoteHost, PartSize, 32, 80)
          \o ImgEntry(RegionBase + PrivateOff + 96, 10, 16, 0))

\* Legacy heap (version 11): item 10 (8 bytes) allocated in the global
\* directory, 16 bytes available; the table holds the partition shared with
\* RemoteHost only, and its info block announces 600 items.
ImageLegacy ==
    MemOf(ImgHeader(SMEM_GLOBAL_HEAP_VERSION, HDR_sizeof + 8, 16)
          \o ImgTocEntry(10, HDR_sizeof, 8)
          \o ImgPtable(3, SMEM_ITEM_COUNT + 88)
          \o ImgPtEntry(2, PrivateOff, PartSize, SMEM_HOST_APPS, RemoteHost, 32)
          \o ImgPartHdr(PrivateOff, SMEM_HOST_APPS, RemoteHost, PartSize, 32, 80)
          \o ImgEntry(RegionBase + PrivateOff + 96, 10, 16, 0))

\* the table entry and the header of the global partition of ImagePart
GlobalEntry == PtableAt + PT_entry + PTE_sizeof * 1
GlobalHdr == RegionBase + GlobalOff
PrivateHdr == RegionBase + PrivateOff

\* ImageLegacy with no byte available: the heap ends at free_offset
ImageLegacyFull ==
    Apply(ImageLegacy,
          << <<RegionBase + HDR_available, 32, 0>> >>)

\* ImagePart with one field of the table or of the global partition wrong
BadGlobal ==
    { <<PtableAt + PT_magic, 16, 0>>,
      <<PtableAt + PT_version, 32, 2>>,
      <<GlobalEntry + PTE_host1, 16, SMEM_HOST_APPS>>,
      <<GlobalEntry + PTE_offset, 32, 0>>,
      <<GlobalEntry + PTE_size, 32, 0>>,
      <<GlobalHdr + PH_magic, 16, 0>>,
      <<GlobalHdr + PH_host0, 16, SMEM_HOST_APPS>>,
      <<GlobalHdr + PH_host1, 16, SMEM_HOST_APPS>>,
      <<GlobalHdr + PH_size, 32, PartSize - 8>>,
      <<GlobalHdr + PH_offset_free_uncached, 32, PartSize + 8>> }

\* the version slot of the header
VersionSlot == RegionBase + HDR_version + 4 * SMEM_MASTER_SBL_VERSION_INDEX

\* ImagePart with a version that is neither 11 nor 12 in the upper 16 bits
BadVersion ==
    { <<VersionSlot, 32, 0>>,
      <<VersionSlot, 32, SMEM_GLOBAL_HEAP_VERSION>>,
      <<VersionSlot, 32, SMEM_GLOBAL_PART_VERSION>>,
      <<VersionSlot, 32, 65536 * (SMEM_GLOBAL_HEAP_VERSION - 1)>>,
      <<VersionSlot, 32, 65536 * (SMEM_GLOBAL_PART_VERSION + 1) + SMEM_GLOBAL_HEAP_VERSION>> }

\* ImagePart with a header that the boot firmware has not initialised
BadHeader ==
    { <<RegionBase + HDR_initialized, 32, 0>>,
      <<RegionBase + HDR_initialized, 32, 2>>,
      <<RegionBase + HDR_reserved, 32, 1>> }

\* ImagePart with a private partition that fails validation
BadPrivate ==
    { <<PrivateHdr + PH_magic, 16, 0>>,
      <<PrivateHdr + PH_host1, 16, RemoteHost + 1>> }

Images ==
    {ImagePart, ImageLegacy, ImageLegacyFull}
        \cup {Store(ImagePart, st) :
                  st \in BadGlobal \cup BadVersion \cup BadHeader \cup BadPrivate}
        \cup {Store(ImageLegacy, st) : st \in BadHeader}

\* the "qcom,smem" node: present, absent, or without an address
FdtNodes ==
    { [node |-> TRUE, addr |-> RegionBase, size |-> RegionSize],
      [node |-> FALSE, addr |-> RegionBase, size |-> RegionSize],
      [node |-> TRUE, addr |-> FDT_ADDR_T_NONE, size |-> RegionSize] }

(***************************************************************************)
(* Calls.                                                                  *)
(***************************************************************************)
Hosts == {RemoteHost, 2, QCOM_SMEM_HOST_ANY}
Items == {7, 8, 10, SMEM_ITEM_COUNT}
\* -1 is SIZE_MAX, -120 is SIZE_MAX - 119
Sizes == {1, 8, 16, -1, -120, 2 ^ 20}

NoCall == [op |-> "none", host |-> 0, item |-> 0, size |-> 0, want |-> FALSE,
           ret |-> "OK", ptr |-> 0, osize |-> 0, seen |-> << >>, kind |-> "none",
           base |-> 0, at |-> 0, stage |-> "none", phys |-> 0, dram |-> << >>]

Init ==
    /\ mem \in Images
    /\ fdt \in FdtNodes
    /\ __smem = << >>
    /\ wbuf = << >>
    /\ pc = "idle"
    /\ remote = 0
    /\ done = {}
    /\ last = NoCall

\* memory as this processor reads it: its own stores that are still on their
\* way to the shared region included
View == Apply(mem, wbuf)

\* a call is made when the previous one has returned to its caller
Idle == pc = "idle" /\ last.op = "none"

\* int qcom_smem_init(void)
InitCall ==
    LET r == qcom_smem_init(View, fdt, __smem)
    IN  /\ Idle
        /\ __smem' = r.handle
        /\ last' = [NoCall EXCEPT !.op = "init", !.ret = r.ret, !.stage = r.stage]
        /\ UNCHANGED <<mem, fdt, wbuf, pc, remote, done>>

\* what a call of qcom_smem_alloc leaves in last
AllocCall(host, item, size, r) ==
    [NoCall EXCEPT !.op = "alloc", !.host = host, !.item = item, !.size = size,
                   !.ret = r.ret, !.seen = r.seen, !.kind = r.kind,
                   !.base = r.part.virt_base, !.at = r.at]

\* int qcom_smem_alloc(unsigned host, unsigned item, size_t size), the whole
\* call in one step
Alloc(host, item, size, beyond) ==
    LET r == qcom_smem_alloc(mem, __smem, host, item, size, beyond)
    IN  /\ Idle
        /\ wbuf = << >>
        /\ mem' = qcom_smem_alloc_mem(mem, __smem, r)
        /\ done' = IF r.ret = "OK" THEN done \cup {<<host, item>>} ELSE done
        /\ last' = AllocCall(host, item, size, r)
        /\ UNCHANGED <<fdt, __smem, wbuf, pc, remote>>

\* void *qcom_smem_get(unsigned host, unsigned item, size_t *size)
Get(host, item, want) ==
    LET g == qcom_smem_get(View, __smem, host, item, want)
    IN  /\ Idle
        /\ last' = [NoCall EXCEPT !.op = "get", !.host = host, !.item = item,
                                  !.want = want, !.ret = g.ret, !.ptr = g.ptr,
                                  !.osize = g.size, !.seen = g.seen,
                                  !.at = g.store]
        /\ UNCHANGED <<mem, fdt, __smem, wbuf, pc, remote, done>>

\* int qcom_smem_get_free_space(unsigned host)
FreeSpace(host) ==
    LET f == qcom_smem_get_free_space(View, __smem, host)
    IN  /\ Idle
        /\ last' = [NoCall EXCEPT !.op = "free_space", !.host = host,
                                  !.ret = f.ret, !.osize = f.value, !.at = f.at]
        /\ UNCHANGED <<mem, fdt, __smem, wbuf, pc, remote, done>>

\* the pointers a caller passes that did not come from qcom_smem_get: below
\* the region, its first byte, inside the global partition, the last
\* halfword and the end of the private partition, the ends of the legacy
\* region and of the region of the device tree
Ptrs ==
    { RegionBase - 2, RegionBase, GlobalHdr + 8, PrivateHdr + PartSize - 2,
      PrivateHdr + PartSize, RegionBase + HDR_sizeof + 24,
      RegionBase + RegionSize }

\* what the dereference of __smem = NULL may give: a fault, or the loops
\* running over whatever lies at address 0 and finding no range or some range
NullOutcomes == {"fault", "none", "some"}

\* phys_addr_t qcom_smem_virt_to_phys(void *p), called with one of Ptrs or
\* with the pointer that qcom_smem_get has just returned
VirtToPhys(p, null) ==
    /\ pc = "idle"
    /\ \/ last.op = "none" /\ p \in Ptrs
       \/ last.op = "get" /\ last.ret = "OK" /\ p = last.ptr
    /\ IF __smem = << >>
       THEN last' = [last EXCEPT !.op = "virt_to_phys", !.ptr = p,
                                 !.ret = IF null = "fault" THEN "FAULT" ELSE "OK",
                                 !.phys = IF null = "some" THEN p ELSE 0]
       ELSE /\ null = "none"
            /\ last' = [last EXCEPT !.op = "virt_to_phys", !.ptr = p,
                                    !.phys = qcom_smem_virt_to_phys(__smem[1], p)]
    /\ UNCHANGED <<mem, fdt, __smem, wbuf, pc, remote, done>>

\* the caller takes the result of the last call
Return ==
    /\ pc = "idle"
    /\ last.op # "none"
    /\ last' = NoCall
    /\ UNCHANGED <<mem, fdt, __smem, wbuf, pc, remote, done>>

Next ==
    \/ InitCall
    \/ Return
    \/ \E host \in Hosts, item \in Items, size \in Sizes, beyond \in BOOLEAN :
           Alloc(host, item, size, beyond)
    \/ \E host \in Hosts, item \in Items, want \in BOOLEAN : Get(host, item, want)
    \/ \E host \in Hosts : FreeSpace(host)

Spec == Init /\ [][Next]_vars

(***************************************************************************)
(* Other processors write to the region while this one runs.               *)
(***************************************************************************)
\* what another processor may store: a canary of the uncached and of the
\* cached list of the global partition, the size and the data padding of an
\* entry (a size that leaves the partition, one that lands past its end, one
\* that steps over the free offset), a free offset
RemoteStores ==
    { <<GlobalHdr + 32 + PE_canary, 16, 0>>,
      <<GlobalHdr + 96 + PE_canary, 16, SMEM_PRIVATE_CANARY - 1>>,
      <<GlobalHdr + 32 + PE_size, 32, PartSize - 8>>,
      <<GlobalHdr + 96 + PE_size, 32, 8 + PartSize>>,
      <<GlobalHdr + 32 + PE_size, 32, 16>>,
      <<GlobalHdr + 32 + PE_padding_data, 16, 16>>,
      <<GlobalHdr + PH_offset_free_uncached, 32, PartSize + 32>> }

\* stores of another processor to slot 10 of the directory: a size that
\* ends at the end of the legacy region, a size that ends past it, an
\* aux_base that names the region up to its low bits, and one that names
\* no region
DirectoryStores ==
    { <<toc_entry(RegionBase, 10) + GE_size, 32, 24>>,
      <<toc_entry(RegionBase, 10) + GE_size, 32, 32>>,
      <<toc_entry(RegionBase, 10) + GE_aux_base, 32, RegionBase + 1>>,
      <<toc_entry(RegionBase, 10) + GE_aux_base, 32, SZ_4K>> }

\* a store of another processor to the header of the region: more bytes
\* available than the region has
HeaderStores == { <<RegionBase + HDR_available, 32, RegionSize>> }

RemoteStore(st) ==
    /\ pc = "idle"
    /\ remote < MaxRemote
    /\ remote' = remote + 1
    /\ mem' = Store(mem, st)
    /\ UNCHANGED <<fdt, __smem, wbuf, pc, done, last>>

HostsRemote == {2, QCOM_SMEM_HOST_ANY}
ItemsRemote == {8, 10, 11}

InitRemote ==
    /\ Init
    /\ mem \in {ImagePart, ImageLegacy, ImageLegacyFull}
    /\ fdt.node /\ fdt.addr = RegionBase

NextRemote ==
    \/ InitCall
    \/ Return
    \/ \E st \in RemoteStores \cup DirectoryStores \cup HeaderStores :
           RemoteStore(st)
    \/ \E host \in HostsRemote, item \in ItemsRemote : Alloc(host, item, 8, FALSE)
    \/ \E host \in HostsRemote, item \in ItemsRemote, want \in BOOLEAN :
           Get(host, item, want)
    \/ \E host \in HostsRemote : FreeSpace(host)
    \/ \E host \in HostsRemote, item \in ItemsRemote : Alloc(host, item, 0, FALSE)
    \/ \E p \in Ptrs \cup {last.ptr}, null \in NullOutcomes : VirtToPhys(p, null)

SpecRemote == InitRemote /\ [][NextRemote]_vars

(***************************************************************************)
(* qcom_smem_alloc store by store.  The stores of this processor reach the *)
(* shared region one at a time and, between barriers, in any order.        *)
(***************************************************************************)
\* wmb() that orders nothing
wmb_none(buf) == TRUE

\* wmb(): the stores issued before it have all reached the region
wmb(buf) == buf = << >>

\* store i of buf may reach the region next: no older store to its address
\* is still waiting
Eligible(buf, i) == \A j \in 1 .. i - 1 : buf[j][1] # buf[i][1]

Remove(buf, i) == [j \in 1 .. Len(buf) - 1 |-> IF j < i THEN buf[j] ELSE buf[j + 1]]

\* the call up to the barrier: an error return, or the stores of the entry
AllocBegin(host, item, size, beyond) ==
    LET r == qcom_smem_alloc(View, __smem, host, item, size, beyond)
    IN  /\ Idle
        /\ last' = AllocCall(host, item, size, r)
        /\ IF r.ret = "OK"
           THEN wbuf' = wbuf \o r.entry /\ pc' = "wmb"
           ELSE UNCHANGED <<wbuf, pc>>
        /\ UNCHANGED <<mem, fdt, __smem, remote, done>>

AllocWmb ==
    /\ pc = "wmb"
    /\ wmb(wbuf)
    /\ pc' = "commit"
    /\ UNCHANGED <<mem, fdt, __smem, wbuf, remote, done, last>>

\* the stores after the barrier, and the return
AllocCommit ==
    LET r == [kind |-> last.kind, part |-> [virt_base |-> last.base],
              at |-> last.at,
              amount |-> IF last.kind = "private"
                         THEN alloc_private_size(last.size)
                         ELSE ALIGN(last.size, 8)]
    IN  /\ pc = "commit"
        /\ wbuf' = wbuf \o qcom_smem_alloc_commit(View, __smem, r)
        /\ pc' = "idle"
        /\ done' = done \cup {<<last.host, last.item>>}
        /\ UNCHANGED <<mem, fdt, __smem, remote, last>>

\* one store of this processor reaches the shared region
Drain(i) ==
    /\ i \in 1 .. Len(wbuf)
    /\ Eligible(wbuf, i)
    /\ mem' = Store(mem, wbuf[i])
    /\ wbuf' = Remove(wbuf, i)
    /\ UNCHANGED <<fdt, __smem, pc, remote, done, last>>

HostsPublish == {RemoteHost, 2}
ItemsPublish == {8, 9}
SizesPublish == {8, -1, -120}

InitPublish ==
    Init /\ mem \in {ImagePart, ImageLegacy} /\ fdt.node /\ fdt.addr = RegionBase

NextPublish ==
    \/ InitCall
    \/ Return
    \/ \E host \in HostsPublish, item \in ItemsPublish, size \in SizesPublish :
           AllocBegin(host, item, size, FALSE)
    \/ AllocWmb
    \/ AllocCommit
    \/ \E i \in 1 .. Len(wbuf) : Drain(i)

SpecPublish == InitPublish /\ [][NextPublish]_vars

(***************************************************************************)
(* qcom_smem_init over the tables and partition headers that the boot      *)
(* firmware may leave.                                                     *)
(***************************************************************************)
PrivateEntry == PtableAt + PT_entry + PTE_sizeof * 2
SpareEntry == PtableAt + PT_entry
\* where a second private partition lies when the table names one
SecondOff == 6 * SZ_4K

\* changes to the table and the partitions of ImagePart: to the header and
\* the table entry of the private partition, and uses of the spare entry for
\* a second entry of the same pair, of the mirrored pair, of the global
\* pair, of a pair without the local processor, and of the local processor
\* with a third one, with and without a valid header
TablePatches ==
    { << <<PrivateHdr + PH_size, 32, PartSize - 8>> >>,
      << <<PrivateHdr + PH_offset_free_uncached, 32, PartSize + 8>> >>,
      << <<PrivateHdr + PH_offset_free_uncached, 32, PartSize>> >>,
      << <<PrivateHdr + PH_host0, 16, RemoteHost>> >>,
      << <<PrivateHdr + PH_offset_free_cached, 32, PartSize + 8>> >>,
      << <<PrivateEntry + PTE_offset, 32, 0>> >>,
      << <<PrivateEntry + PTE_size, 32, 0>> >>,
      << <<PrivateEntry + PTE_host1, 16, SMEM_HOST_COUNT>> >>,
      ImgPtEntry(0, PrivateOff, PartSize, SMEM_HOST_APPS, RemoteHost, 32),
      ImgPtEntry(0, PrivateOff, PartSize, RemoteHost, SMEM_HOST_APPS, 32),
      ImgPtEntry(0, PrivateOff, 0, SMEM_HOST_APPS, RemoteHost, 32),
      ImgPtEntry(0, 0, PartSize, SMEM_HOST_APPS, RemoteHost, 32),
      ImgPtEntry(0, SecondOff, PartSize, SMEM_HOST_APPS, RemoteHost, 32)
          \o ImgPartHdr(SecondOff, SMEM_HOST_APPS, RemoteHost, PartSize, 32, 96),
      ImgPtEntry(0, GlobalOff, PartSize, SMEM_GLOBAL_HOST, SMEM_GLOBAL_HOST, 32),
      ImgPtEntry(0, SecondOff, PartSize, SMEM_GLOBAL_HOST, SMEM_GLOBAL_HOST, 32),
      ImgPtEntry(0, SecondOff, PartSize, RemoteHost, RemoteHost + 1, 32),
      ImgPtEntry(0, SecondOff, PartSize, SMEM_HOST_APPS, RemoteHost + 1, 32),
      ImgPtEntry(0, SecondOff, PartSize, RemoteHost + 1, SMEM_HOST_APPS, 32)
          \o ImgPartHdr(SecondOff, RemoteHost + 1, SMEM_HOST_APPS, PartSize, 32, 96) }

\* changes to ImageLegacy: no table, a private partition with a wrong
\* header, a second entry for the same pair
LegacyPatches ==
    { << <<PtableAt + PT_magic, 16, 0>> >>,
      << <<PrivateHdr + PH_magic, 16, 0>> >>,
      << <<PrivateHdr + PH_size, 32, PartSize + 8>> >>,
      ImgPtEntry(0, PrivateOff, PartSize, SMEM_HOST_APPS, RemoteHost, 32) }

InitImages ==
    Images \cup {Apply(ImagePart, sts) : sts \in TablePatches}
           \cup {Apply(ImageLegacy, sts) : sts \in LegacyPatches}

InitTables ==
    /\ mem \in InitImages
    /\ fdt \in FdtNodes
    /\ __smem = << >>
    /\ wbuf = << >>
    /\ pc = "idle"
    /\ remote = 0
    /\ done = {}
    /\ last = NoCall

NextTables ==
    \/ InitCall
    \/ Return

SpecTables == InitTables /\ [][NextTables]_vars

(***************************************************************************)
(* Cached lists under every cacheline.  The cacheline of a partition is    *)
(* the word of its table entry, copied unchecked by qcom_smem_init; the    *)
(* first cached entry lies ALIGN(sizeof(entry), cacheline) below the end   *)
(* of the partition.                                                       *)
(***************************************************************************)
\* the cachelines a table entry may announce
Cachelines == {0, 1, 32}
\* the sizes of a cached entry
EntrySizes == {0, 8}

\* ImagePart whose global partition announces cacheline c, with an entry of
\* item 12 and size s1 at the end of the partition, where the cached list
\* starts when ALIGN gives 0, and size s2 in the cached entry of item 11
WalkImage(c, s1, s2) ==
    Apply(ImagePart,
          << <<GlobalEntry + PTE_cacheline, 32, c>> >>
          \o ImgEntry(GlobalHdr + PartSize, 12, s1, 0)
          \o << <<GlobalHdr + 96 + PE_size, 32, s2>> >>)

WalkImages ==
    {WalkImage(c, s1, s2) : c \in Cachelines, s1 \in EntrySizes, s2 \in EntrySizes}

InitWalk ==
    /\ mem \in WalkImages
    /\ fdt = [node |-> TRUE, addr |-> RegionBase, size |-> RegionSize]
    /\ __smem = << >>
    /\ wbuf = << >>
    /\ pc = "idle"
    /\ remote = 0
    /\ done = {}
    /\ last = NoCall

NextWalk ==
    \/ InitCall
    \/ Return
    \/ \E host \in HostsRemote, item \in ItemsRemote : Alloc(host, item, 8, FALSE)
    \/ \E host \in HostsRemote, item \in ItemsRemote, want \in BOOLEAN :
          Get(host, item, want)

SpecWalk == InitWalk /\ [][NextWalk]_vars

(***************************************************************************)
(* The memory layout: qcom_parse_memory of arch/arm/mach-snapdragon/dram.c *)
(***************************************************************************)
SMEM_USABLE_RAM_PARTITION_TABLE == 402
RAM_PART_NAME_LENGTH == 16
RAM_NUM_PART_ENTRIES == 32
CATEGORY_SDRAM == 14
TYPE_SYSMEM == 1
\* the banks the build has room for, a configuration value
CONFIG_NR_DRAM_BANKS == 2

\* struct smem_ram_ptn, packed: offsets of its members and its size
RPN_start == RAM_PART_NAME_LENGTH
RPN_size == RPN_start + 8
RPN_category == RPN_size + 8 + 4
RPN_type == RPN_category + 4 + 4
RPN_sizeof == RPN_type + 4 + 4 + 3 * 4 + 2 * 4
\* struct smem_ram_ptable, packed: parts follows the header of five words
\* and a reserved word
RPT_parts == 5 * 4 + 4

\* a u64 of the table; the images keep its high word small
Rd64(m, a) == Rd32(m, a) + U32Mod * Rd32(m, a + 4)

\* ERR_PTR(-errno): the pointer whose value is the negated error number
ERR_PTR(ret) ==
    CASE ret = "ENOENT" -> -2
      [] ret = "ENXIO" -> -6
      [] ret = "EINVAL" -> -22
      [] ret = "EPROBE_DEFER" -> -517
      [] OTHER -> -1

Max(a, b) == IF a >= b THEN a ELSE b
Min(a, b) == IF a <= b THEN a ELSE b

NoBank == [start |-> 0, size |-> 0]
\* prevbl_ddr_banks, zero initialised (index j of the source is j + 1 here)
NoBanks == [j \in 1..CONFIG_NR_DRAM_BANKS |-> NoBank]

\* the loop of qcom_parse_memory_smem over parts[i], from entry i with j
\* banks found
RECURSIVE parse_parts(_, _, _, _, _, _)
parse_parts(m, ram_ptable, i, j, banks, ram_end) ==
    LET part == ram_ptable + RPT_parts + i * RPN_sizeof
        start == Rd64(m, part + RPN_start)
        size == Rd64(m, part + RPN_size)
    IN  IF ~(i < RAM_NUM_PART_ENTRIES /\ j < CONFIG_NR_DRAM_BANKS)
        THEN [j |-> j, banks |-> banks, ram_end |-> ram_end]
        ELSE IF Rd32(m, part + RPN_category) # CATEGORY_SDRAM
                \/ Rd32(m, part + RPN_type) # TYPE_SYSMEM
        THEN parse_parts(m, ram_ptable, i + 1, j, banks, ram_end)
        ELSE IF size = 0 /\ start = 0
        THEN [j |-> j, banks |-> banks, ram_end |-> ram_end]
        ELSE parse_parts(m, ram_ptable, i + 1, j + 1,
                         [banks EXCEPT ![j + 1] = [start |-> start, size |-> size]],
                         Max(ram_end, start + size))

\* what reading parts[] through a pointer that qcom_smem_get made of an
\* error number may do: fault, find no bank, find a bank in what it reads
ErrPtrOutcomes == {"fault", "none", "some"}

\* qcom_parse_memory_smem once qcom_smem_init has returned i and, when it
\* succeeded, qcom_smem_get has returned g: ret is the error when the value
\* returned is negative, j the number of banks otherwise; read is the
\* pointer the parts were read through, 0 when none was read
parse_memory_smem_parts(m, i, g, ram_ptable, banks, ram_end, ub) ==
    LET none == [ret |-> "OK", j |-> 0, banks |-> banks, ram_end |-> ram_end,
                 handle |-> i.handle, read |-> 0, lookup |-> g.ret]
        r == parse_parts(m, ram_ptable, 0, 0, banks, ram_end)
    IN  IF i.ret # "OK" THEN [none EXCEPT !.ret = i.ret, !.lookup = "none"]
        ELSE IF g.hang THEN [none EXCEPT !.ret = "HANG"]
        ELSE IF ram_ptable = 0 THEN [none EXCEPT !.ret = "ENODEV"]
        ELSE IF g.ret # "OK"
        THEN CASE ub = "fault" -> [none EXCEPT !.ret = "FAULT", !.read = ram_ptable]
               [] ub = "none" -> [none EXCEPT !.read = ram_ptable]
               [] OTHER -> [none EXCEPT !.read = ram_ptable, !.j = 1,
                                        !.banks[1] = [start |-> 0, size |-> SZ_4K],
                                        !.ram_end = Max(ram_end, SZ_4K)]
        ELSE [none EXCEPT !.j = r.j, !.banks = r.banks, !.ram_end = r.ram_end,
                          !.read = ram_ptable]

\* static int qcom_parse_memory_smem(phys_addr_t *ram_end): the value of
\* each call is computed once, as the routine keeps it in ret and ram_ptable
qcom_parse_memory_smem(m, dt, handle, banks, ram_end, ub) ==
    CHOOSE r \in UNION { UNION { { parse_memory_smem_parts(m, i, g, ram_ptable,
                                                           banks, ram_end, ub)
                                   : ram_ptable \in {IF g.ret = "OK" THEN g.ptr
                                                     ELSE ERR_PTR(g.ret)} }
                                 : g \in {qcom_smem_get(m, i.handle, QCOM_SMEM_HOST_ANY,
                                              SMEM_USABLE_RAM_PARTITION_TABLE, TRUE)} }
                         : i \in {qcom_smem_init(m, dt, handle)} } : TRUE

\* static void qcom_parse_memory_dt(memory, banks, ram_end): memory is the
\* reg property as a sequence of <<start, size>> pairs; k is i / 2
RECURSIVE qcom_parse_memory_dt(_, _, _, _, _, _)
qcom_parse_memory_dt(memory, nbanks, k, j, banks, ram_end) ==
    IF ~(k < nbanks) THEN [banks |-> banks, ram_end |-> ram_end]
    ELSE LET b == [start |-> memory[k + 1][1], size |-> memory[k + 1][2]]
             stored == [banks EXCEPT ![j + 1] = b]
         IN  IF b.size = 0
             THEN qcom_parse_memory_dt(memory, nbanks, k + 1, j, stored, ram_end)
             ELSE qcom_parse_memory_dt(memory, nbanks, k + 1, j + 1, stored,
                                       Max(ram_end, b.start + b.size))

\* ddr_bank_cmp(v1, v2) <= 0: a bank without size goes last, the others go
\* by start >> 24
ddr_bank_le(b1, b2) ==
    IF b1.size = 0 THEN FALSE
    ELSE IF b2.size = 0 THEN TRUE
    ELSE (b1.start \div 2 ^ 24) <= (b2.start \div 2 ^ 24)

\* qsort(prevbl_ddr_banks, n, ..., ddr_bank_cmp), as an insertion sort of the
\* first n banks
RECURSIVE insert_bank(_, _, _)
insert_bank(banks, b, n) ==
    IF n = 0 \/ ddr_bank_le(banks[n], b) THEN [banks EXCEPT ![n + 1] = b]
    ELSE insert_bank([banks EXCEPT ![n + 1] = banks[n]], b, n - 1)

RECURSIVE sort_banks(_, _, _)
sort_banks(banks, k, n) ==
    IF k >= n THEN banks
    ELSE sort_banks(insert_bank(banks, banks[k + 1], k), k + 1, n)

\* the /memory node of the device tree: absent, without reg, with reg
MemoryNodes ==
    { [node |-> FALSE, reg |-> FALSE, memory |-> << >>],
      [node |-> TRUE, reg |-> FALSE, memory |-> << >>],
      [node |-> TRUE, reg |-> TRUE, memory |-> << <<0, 0>> >>],
      [node |-> TRUE, reg |-> TRUE, memory |-> << <<2 ^ 25, 2 ^ 24>> >>],
      [node |-> TRUE, reg |-> TRUE,
       memory |-> << <<2 ^ 25, 2 ^ 24>>, <<0, 0>>, <<2 ^ 24, 2 ^ 24>> >>] }

\* what a call of qcom_parse_memory leaves when it does not reach the SMEM
NoDram == [ret |-> "OK", source |-> "none", banks |-> NoBanks, nbanks |-> 0,
           ram_base |-> 0, ram_size |-> 0, smem |-> "none", lookup |-> "none",
           read |-> 0, handle |-> << >>]

\* what qcom_parse_memory_smem leaves when it is not called
NoSmem == [ret |-> "none", j |-> 0, banks |-> NoBanks, ram_end |-> 0,
           handle |-> << >>, read |-> 0, lookup |-> "none"]

\* qcom_parse_memory from the test of the first bank on: d is what
\* qcom_parse_memory_dt left, s what qcom_parse_memory_smem returned when
\* use says that it is called
parse_memory_layout(handle, nbanks, d, use, s) ==
    LET banks == IF use THEN s.banks ELSE d.banks
        n == IF use THEN s.j ELSE nbanks
        ram_end == IF use THEN s.ram_end ELSE d.ram_end
        r == [NoDram EXCEPT !.handle = IF use THEN s.handle ELSE handle,
                            !.smem = s.ret, !.lookup = s.lookup, !.read = s.read]
    IN  IF use /\ s.ret \in {"FAULT", "HANG"} THEN [r EXCEPT !.ret = s.ret]
        ELSE IF use /\ s.ret # "OK" THEN [r EXCEPT !.ret = "PANIC"]
        ELSE CHOOSE l \in { [r EXCEPT !.source = IF use THEN "smem" ELSE "dt",
                                      !.banks = sorted, !.nbanks = n,
                                      !.ram_base = sorted[1].start,
                                      !.ram_size = ram_end - sorted[1].start]
                            : sorted \in {sort_banks(banks, 0, n)} } : TRUE

\* void qcom_parse_memory(bool fdt_is_internal)
qcom_parse_memory(m, dt, handle, fdt_is_internal, mn, ub) ==
    LET nbanks == Min(Len(mn.memory), CONFIG_NR_DRAM_BANKS)
    IN  IF ~mn.node \/ ~mn.reg THEN [NoDram EXCEPT !.handle = handle]
        ELSE CHOOSE l \in UNION { UNION { { parse_memory_layout(handle, nbanks, d, use, s)
                  : s \in {IF use
                           THEN qcom_parse_memory_smem(m, dt, handle, d.banks,
                                                       d.ram_end, ub)
                           ELSE NoSmem} }
                : use \in {d.banks[1].size = 0 /\ fdt_is_internal} }
              : d \in {qcom_parse_memory_dt(mn.memory, nbanks, 0, 0, NoBanks, 0)} }
              : TRUE

\* the boot calls qcom_parse_memory; a panic, a fault and a walk without end
\* stop the boot
ParseMemory(fdt_is_internal, mn, ub) ==
    \E r \in {qcom_parse_memory(View, fdt, __smem, fdt_is_internal, mn, ub)} :
        /\ Idle
        /\ wbuf = << >>
        /\ __smem' = r.handle
        /\ pc' = IF r.ret = "OK" THEN pc ELSE "halted"
        /\ last' = [NoCall EXCEPT !.op = "parse_memory", !.want = fdt_is_internal,
                                  !.ret = r.ret, !.dram = <<r>>]
        /\ UNCHANGED <<mem, fdt, wbuf, remote, done>>

\* the region when the boot reaches qcom_parse_memory: the images of the
\* partitioned and of the legacy heap, with and without the table of RAM
\* partitions as item 402
RamTableOff == HDR_sizeof + 8
RamTableSize == RPT_parts + 3 * RPN_sizeof
ImgRamPart(i, start, size, category, type) ==
    LET part == RegionBase + RamTableOff + RPT_parts + i * RPN_sizeof
    IN  << <<part + RPN_start, 32, start>>, <<part + RPN_size, 32, size>>,
           <<part + RPN_category, 32, category>>, <<part + RPN_type, 32, type>> >>

\* ImageLegacy with item 402 allocated after item 10: a bank, a part of
\* another category, a second bank
ImageRamTable ==
    MemOf(ImgHeader(SMEM_GLOBAL_HEAP_VERSION, RamTableOff + RamTableSize, 16)
          \o ImgTocEntry(10, HDR_sizeof, 8)
          \o ImgTocEntry(SMEM_USABLE_RAM_PARTITION_TABLE, RamTableOff, RamTableSize)
          \o ImgRamPart(0, 2 ^ 25, 2 ^ 24, CATEGORY_SDRAM, TYPE_SYSMEM)
          \o ImgRamPart(1, 2 ^ 20, 2 ^ 20, CATEGORY_SDRAM + 1, TYPE_SYSMEM)
          \o ImgRamPart(2, 2 ^ 24, 2 ^ 24, CATEGORY_SDRAM, TYPE_SYSMEM)
          \o ImgPtable(3, SMEM_ITEM_COUNT + 88)
          \o ImgPtEntry(2, PrivateOff, PartSize, SMEM_HOST_APPS, RemoteHost, 32)
          \o ImgPartHdr(PrivateOff, SMEM_HOST_APPS, RemoteHost, PartSize, 32, 80)
          \o ImgEntry(RegionBase + PrivateOff + 96, 10, 16, 0))

DramImages ==
    {ImagePart, ImageLegacy, ImageRamTable}
    \cup {Store(ImagePart, st) : st \in BadHeader \cup BadPrivate}
    \cup {Store(ImageRamTable, st) : st \in BadHeader}

InitDram ==
    /\ mem \in DramImages
    /\ fdt \in FdtNodes
    /\ __smem = << >>
    /\ wbuf = << >>
    /\ pc = "idle"
    /\ remote = 0
    /\ done = {}
    /\ last = NoCall

NextDram ==
    \/ InitCall
    \/ Return
    \/ \E fdt_is_internal \in BOOLEAN, mn \in MemoryNodes, ub \in ErrPtrOutcomes :
          ParseMemory(fdt_is_internal, mn, ub)
    \/ \E host \in HostsRemote :
          Get(host, SMEM_USABLE_RAM_PARTITION_TABLE, TRUE)

SpecDram == InitDram /\ [][NextDram]_vars

(***************************************************************************)
(* A region of 1 MiB, version 12, whose table holds one partition of       *)
(* 64 KiB with an empty uncached list and an empty cached list.            *)
(***************************************************************************)
ExampleOff == 16 * SZ_4K
ExampleSize == 16 * SZ_4K
ExampleHdr == RegionBase + ExampleOff

\* the region when the one partition is that of the pair <<host0, host1>>
ImageExample(host0, host1) ==
    MemOf(ImgHeader(SMEM_GLOBAL_PART_VERSION, HDR_sizeof, 16)
          \o ImgPtable(1, SMEM_ITEM_COUNT)
          \o ImgPtEntry(0, ExampleOff, ExampleSize, host0, host1, 32)
          \o ImgPartHdr(ExampleOff, host0, host1, ExampleSize, PH_sizeof, ExampleSize))

ExamplePairs ==
    { <<SMEM_GLOBAL_HOST, SMEM_GLOBAL_HOST>>, <<SMEM_HOST_APPS, SMEM_GLOBAL_HOST>>,
      <<SMEM_GLOBAL_HOST, SMEM_HOST_APPS>> }

ItemsExample == {SMEM_USABLE_RAM_PARTITION_TABLE, SMEM_USABLE_RAM_PARTITION_TABLE + 1}
SizesExample == {1, 3 * 128}

InitExample ==
    /\ mem \in {ImageExample(pair[1], pair[2]) : pair \in ExamplePairs}
    /\ fdt = [node |-> TRUE, addr |-> RegionBase, size |-> RegionSize]
    /\ __smem = << >>
    /\ wbuf = << >>
    /\ pc = "idle"
    /\ remote = 0
    /\ done = {}
    /\ last = NoCall

NextExample ==
    \/ InitCall
    \/ Return
    \/ \E host \in {SMEM_HOST_APPS, QCOM_SMEM_HOST_ANY}, item \in ItemsExample,
          size \in SizesExample, beyond \in BOOLEAN : Alloc(host, item, size, beyond)
    \/ \E host \in {SMEM_HOST_APPS, QCOM_SMEM_HOST_ANY}, item \in ItemsExample :
          Get(host, item, TRUE)

SpecExample == InitExample /\ [][NextExample]_vars

(***************************************************************************)
(* Properties.                                                             *)
(***************************************************************************)
\* the byte range [base, base + size) of the store that serves host
StoreRange(handle, host) ==
    LET st == select_store(handle[1], host)
    IN  IF st.kind = "private"
        THEN [base |-> st.part.virt_base, size |-> st.part.size]
        ELSE [base |-> handle[1].regions[1].virt_base,
              size |-> handle[1].regions[1].size]

\* [p, p + n) lies inside range r
Inside(p, n, r) == r.base <= p /\ n >= 0 /\ p + n <= r.base + r.size

\* the step is a call of op
Calls(op) == last.op = "none" /\ last'.op = op

\* the addresses at which two memories differ
Changed(m1, m2) ==
    {a \in DOMAIN m1 \cup DOMAIN m2 : Rd16(m1, a) # Rd16(m2, a)}

\* the partitions a handle knows
Parts(handle) ==
    IF handle = << >> THEN {}
    ELSE {p \in {handle[1].global_partition}
                    \cup {handle[1].partitions[h] : h \in 0 .. SMEM_HOST_COUNT - 1} :
             p.virt_base # 0}

\* the major version in the header of the region the device tree names
VersionMajor(m) ==
    Rd32(m, fdt.addr + HDR_version + 4 * SMEM_MASTER_SBL_VERSION_INDEX) \div 65536

\* C1: round trip.  Right after a successful alloc(host, item, size), a
\* get(host, item) succeeds and returns the requested size and a pointer p
\* with [p, p + size) inside the partition or region that served the
\* allocation.
C1_RoundTrip ==
    (last.op = "alloc" /\ last.ret = "OK") =>
        LET g == qcom_smem_get(mem, __smem, last.host, last.item, TRUE)
        IN  /\ g.ret = "OK"
            /\ g.size = last.size
            /\ Inside(g.ptr, g.size, StoreRange(__smem, last.host))

\* C2: idempotence.  Once alloc(host, item, _) has succeeded, every later
\* alloc(host, item, _) returns EEXIST and leaves the region as it was.
C2_Idempotent ==
    [][(Calls("alloc") /\ <<last'.host, last'.item>> \in done)
           => (last'.ret = "EEXIST" /\ mem' = mem)]_vars

\* the free offsets of every partition are in order
Ordered(m, handle) ==
    \A p \in Parts(handle) :
        Rd32(m, p.virt_base + PH_offset_free_uncached)
            <= Rd32(m, p.virt_base + PH_offset_free_cached)

\* an entry for size bytes does not fit between the free offsets of the
\* partition at phdr; a negative size stands for one of 2^63 bytes or more
WouldCross(m, phdr, size) ==
    \/ size < 0
    \/ Rd32(m, phdr + PH_offset_free_uncached) + PE_sizeof + 8 * ((size + 7) \div 8)
           > Rd32(m, phdr + PH_offset_free_cached)

\* C3: growth direction.  No step takes the free offsets of a partition out
\* of order, and an allocation that would take the uncached free offset past
\* the cached one returns ENOSPC and writes nothing.
C3_Growth ==
    [][/\ Ordered(mem, __smem) => Ordered(mem', __smem')
       /\ (/\ Calls("alloc")
           /\ last'.kind = "private"
           /\ last'.ret \notin {"EINVAL", "EEXIST"}
           /\ WouldCross(mem, last'.base, last'.size))
              => (last'.ret = "ENOSPC" /\ mem' = mem)]_vars

\* the entries of the uncached list of the partition at phdr, as memory m
\* shows them, all carry the canary; n counts the entries walked
RECURSIVE PublishedValid(_, _, _, _)
PublishedValid(m, phdr, e, n) ==
    IF ~ULT(e, phdr_to_last_uncached_entry(m, phdr)) \/ n >= MaxWalk THEN TRUE
    ELSE /\ Rd16(m, e + PE_canary) = SMEM_PRIVATE_CANARY
         /\ PublishedValid(m, phdr, uncached_entry_next(m, e), n + 1)

\* C4: publish ordering.  In every state of the shared region that another
\* processor can observe, the entries below the uncached free offset carry
\* the canary, and once the free offset is seen past the entry that an
\* allocation is adding, all fields of that entry are seen as written.
C4_Publish ==
    /\ \A p \in Parts(__smem) :
           PublishedValid(mem, p.virt_base,
                          phdr_to_first_uncached_entry(p.virt_base), 0)
    /\ (/\ last.op = "alloc" /\ last.kind = "private" /\ last.ret = "OK"
        /\ ULT(last.at, phdr_to_last_uncached_entry(mem, last.base)))
           => LET sts == alloc_private_entry(last.at, last.item, last.size)
              IN  \A i \in 1 .. Len(sts) : Store(mem, sts[i]) = mem

\* C4 witness: the advanced free offset and the new entry have both reached
\* the region while the call is still to return
C4_Witness ==
    /\ last.op = "alloc" /\ last.kind = "private" /\ last.ret = "OK"
    /\ pc = "idle" /\ wbuf = << >>
    /\ phdr_to_last_uncached_entry(mem, last.base)
           = last.at + alloc_private_size(last.size)
    /\ Rd16(mem, last.at + PE_canary) = SMEM_PRIVATE_CANARY

\* C5: corruption containment.  A call that reads an entry whose canary is
\* not SMEM_PRIVATE_CANARY stops at that entry, returns EINVAL, returns no
\* pointer and stores nothing.
C5_Canary ==
    [][(Calls("alloc") \/ Calls("get"))
           => \A i \in 1 .. Len(last'.seen) :
                  Rd16(mem, last'.seen[i] + PE_canary) # SMEM_PRIVATE_CANARY
                      => /\ i = Len(last'.seen)
                         /\ last'.ret = "EINVAL"
                         /\ last'.ptr = 0
                         /\ mem' = mem]_vars

\* C5 witness: a lookup has stopped with EINVAL at an entry of the cached
\* list whose canary is wrong
C5_Witness ==
    /\ last.op = "get" /\ last.ret = "EINVAL"
    /\ Len(last.seen) = 2
    /\ Rd16(mem, last.seen[2] + PE_canary) # SMEM_PRIVATE_CANARY

\* C6: bounds safety of lookup.  Whatever the partition holds, every entry a
\* lookup reads lies inside the partition, and a lookup that succeeds returns
\* a pointer p and a size s with [p, p + s) inside the partition.
C6_LookupInBounds ==
    (last.op = "get" /\ __smem # << >>
        /\ select_store(__smem[1], last.host).kind = "private")
        => LET r == StoreRange(__smem, last.host)
           IN  /\ \A i \in 1 .. Len(last.seen) : Inside(last.seen[i], PE_sizeof, r)
               /\ last.ret = "OK" => Inside(last.ptr, last.osize, r)

\* C7: failure atomicity.  An alloc or get that returns an error leaves the
\* shared region and the handle as they were.
C7_FailureAtomic ==
    [][((Calls("alloc") \/ Calls("get")) /\ last'.ret # "OK")
           => (mem' = mem /\ __smem' = __smem)]_vars

\* C7 witness: an allocation has been refused for lack of space after an
\* earlier one succeeded
C7_Witness == last.op = "alloc" /\ last.ret = "ENOSPC" /\ done # {}

\* C8: append-only uniqueness.  When the partition that serves host already
\* holds an entry for item, in either list, alloc(host, item, _) returns
\* EEXIST and writes nothing.
C8_Unique ==
    [][(/\ Calls("alloc")
        /\ __smem # << >>
        /\ select_store(__smem[1], last'.host).kind = "private"
        /\ qcom_smem_get(mem, __smem, last'.host, last'.item, FALSE).ret = "OK")
           => (last'.ret = "EEXIST" /\ mem' = mem)]_vars

\* the partition table is valid and holds an entry for the pair
\* (SMEM_GLOBAL_HOST, SMEM_GLOBAL_HOST), with offset and size, whose
\* partition header is valid
GlobalPartitionValid(m) ==
    LET pt == fdt.addr + fdt.size - SZ_4K
    IN  /\ MagicAt(m, pt + PT_magic, SMEM_PTABLE_MAGIC)
        /\ Rd32(m, pt + PT_version) = 1
        /\ \E i \in 0 .. Rd32(m, pt + PT_num_entries) - 1 :
               LET e == pt + PT_entry + PTE_sizeof * i
                   h == fdt.addr + Rd32(m, e + PTE_offset)
               IN  /\ Rd32(m, e + PTE_offset) # 0
                   /\ Rd32(m, e + PTE_size) # 0
                   /\ Rd16(m, e + PTE_host0) = SMEM_GLOBAL_HOST
                   /\ Rd16(m, e + PTE_host1) = SMEM_GLOBAL_HOST
                   /\ MagicAt(m, h + PH_magic, SMEM_PART_MAGIC)
                   /\ Rd16(m, h + PH_host0) = SMEM_GLOBAL_HOST
                   /\ Rd16(m, h + PH_host1) = SMEM_GLOBAL_HOST
                   /\ Rd32(m, h + PH_size) = Rd32(m, e + PTE_size)
                   /\ Rd32(m, h + PH_offset_free_uncached) <= Rd32(m, h + PH_size)

\* C9: version 12.  qcom_smem_init succeeds only on a region whose partition
\* table and global partition are valid; on any other it fails and leaves
\* __smem as it was, NULL when no earlier call succeeded.
C9_Partitioned ==
    [][(Calls("init") /\ VersionMajor(mem) = SMEM_GLOBAL_PART_VERSION)
           => /\ last'.ret = "OK" => GlobalPartitionValid(mem)
              /\ ~GlobalPartitionValid(mem)
                     => (last'.ret # "OK" /\ __smem' = __smem)]_vars

\* C9 witness: qcom_smem_init has failed on a version 12 region without a
\* valid global partition, and the heap is not available
C9_Witness ==
    /\ last.op = "init" /\ last.ret # "OK"
    /\ VersionMajor(mem) = SMEM_GLOBAL_PART_VERSION
    /\ ~GlobalPartitionValid(mem)
    /\ __smem = << >>

\* host has no private partition
NoPrivate(smem, host) ==
    ~(ULT(host, SMEM_HOST_COUNT) /\ smem.partitions[host].virt_base # 0)

\* the cells of the global directory that belong to item, and the two
\* counters of the header
DirectoryCells(header, item) ==
    {toc_entry(header, item) + 2 * k : k \in 0 .. (GE_sizeof \div 2) - 1}
        \cup {header + HDR_free_offset, header + HDR_free_offset + 2,
              header + HDR_available, header + HDR_available + 2}

\* C10: version 11.  A handle made from a version 11 region has no global
\* partition and 512 items; for a host without private partition alloc
\* writes only the directory slot of the item and the counters of the header
\* of the first region, and get answers from that slot.
C10_Legacy ==
    [][(VersionMajor(mem) = SMEM_GLOBAL_HEAP_VERSION /\ __smem' # << >>)
           => LET smem == __smem'[1]
                  header == smem.regions[1].virt_base
                  entry == toc_entry(header, last'.item)
              IN  /\ smem.global_partition = NoPart
                  /\ smem.item_count = SMEM_ITEM_COUNT
                  /\ header = fdt.addr
                  /\ (Calls("alloc") /\ NoPrivate(smem, last'.host))
                         => /\ Changed(mem, mem') \subseteq
                                   DirectoryCells(header, last'.item)
                            /\ last'.ret = "OK"
                                   => /\ last'.kind = "global"
                                      /\ Rd32(mem', entry + GE_allocated) = 1
                            /\ last'.item >= SMEM_ITEM_COUNT => last'.ret = "EINVAL"
                  /\ (Calls("get") /\ NoPrivate(smem, last'.host))
                         => /\ last'.item >= SMEM_ITEM_COUNT => last'.ret = "EINVAL"
                            /\ last'.ret = "OK"
                                   => /\ Rd32(mem, entry + GE_allocated) # 0
                                      /\ last'.ptr
                                             = header + Rd32(mem, entry + GE_offset)
                                      /\ last'.want
                                             => last'.osize
                                                    = Rd32(mem, entry + GE_size)]_vars

\* C10 witness: on a version 11 region, an allocation for a host without
\* private partition has succeeded in the global directory
C10_Witness ==
    /\ VersionMajor(mem) = SMEM_GLOBAL_HEAP_VERSION
    /\ last.op = "alloc" /\ last.ret = "OK" /\ last.kind = "global"
    /\ __smem # << >> /\ NoPrivate(__smem[1], last.host)
    /\ __smem[1].item_count = SMEM_ITEM_COUNT

\* the header of the region named by the device tree carries the flags
\* that qcom_smem_init accepts
HeaderReady(m) ==
    /\ fdt.node /\ fdt.addr # FDT_ADDR_T_NONE
    /\ Rd32(m, fdt.addr + HDR_initialized) = 1
    /\ Rd32(m, fdt.addr + HDR_reserved) = 0

\* C11: when the header is initialised and the major version of the boot
\* loader is neither 11 nor 12, qcom_smem_init returns EINVAL from the
\* version switch and leaves __smem as it was.
C11_UnsupportedVersion ==
    [][(Calls("init") /\ HeaderReady(mem)
          /\ VersionMajor(mem)
                 \notin {SMEM_GLOBAL_HEAP_VERSION, SMEM_GLOBAL_PART_VERSION})
           => /\ last'.ret = "EINVAL"
              /\ last'.stage = "version"
              /\ __smem' = __smem
              /\ ~qcom_smem_is_available(__smem')
              /\ mem' = mem]_vars

C11_Witness ==
    /\ last.op = "init" /\ last.ret = "EINVAL" /\ last.stage = "version"
    /\ HeaderReady(mem)
    /\ VersionMajor(mem) = SMEM_GLOBAL_PART_VERSION + 1
    /\ __smem = << >>

\* C12: qcom_smem_init returns ENODEV when the device tree has no
\* "qcom,smem" node, and EINVAL when the header's initialized word is not 1
\* or its reserved word is not 0; in both cases it returns before the
\* version switch and the enumeration of the partitions, and the heap stays
\* unavailable.
C12_InitRejects ==
    [][Calls("init")
           => /\ ~fdt.node
                  => /\ last'.ret = "ENODEV" /\ last'.stage = "node"
                     /\ __smem' = __smem /\ ~qcom_smem_is_available(__smem')
              /\ (fdt.node /\ fdt.addr # FDT_ADDR_T_NONE /\ ~HeaderReady(mem))
                  => /\ last'.ret = "EINVAL" /\ last'.stage = "header"
                     /\ __smem' = __smem /\ ~qcom_smem_is_available(__smem')
              /\ last'.stage \in {"version", "enumerate", "done"}
                  => HeaderReady(mem)]_vars

C12_Witness ==
    /\ last.op = "init" /\ last.ret = "EINVAL" /\ last.stage = "header"
    /\ Rd32(mem, fdt.addr + HDR_initialized) = 1
    /\ Rd32(mem, fdt.addr + HDR_reserved) # 0
    /\ __smem = << >>

\* C13: once qcom_smem_init has succeeded, a later call returns without
\* reaching the assignment of __smem, and __smem keeps its value.
C13_SingleInit ==
    [][(Calls("init") /\ qcom_smem_is_available(__smem))
           => /\ last'.stage # "done"
              /\ __smem' = __smem]_vars

\* C14: qcom_smem_is_available is false before the first call, becomes true
\* exactly at a call of qcom_smem_init that returns 0 and stays true; a call
\* that fails at the node, the address, the header, the version switch
\* (partition table and global partition included) or the enumeration of
\* the partitions leaves it false.
C14_Available ==
    /\ ~qcom_smem_is_available(__smem)
    /\ [][/\ qcom_smem_is_available(__smem) => qcom_smem_is_available(__smem')
          /\ (~qcom_smem_is_available(__smem) /\ qcom_smem_is_available(__smem'))
                 => (Calls("init") /\ last'.ret = "OK")
          /\ (Calls("init") /\ last'.ret = "OK")
                 => (qcom_smem_is_available(__smem') /\ last'.stage = "done")
          /\ (Calls("init") /\ last'.stage # "done") => last'.ret # "OK"]_vars

C14_Witness ==
    /\ last.op = "init" /\ last.stage = "enumerate" /\ last.ret = "EINVAL"
    /\ HeaderReady(mem) /\ VersionMajor(mem) = SMEM_GLOBAL_PART_VERSION
    /\ ~qcom_smem_is_available(__smem)

\* C15: while __smem is NULL, qcom_smem_alloc, qcom_smem_get and
\* qcom_smem_get_free_space return EPROBE_DEFER whatever their arguments,
\* items and sizes that would be rejected included, and neither read an
\* entry or a header of the region nor write to it.
C15_NotReady ==
    [][((Calls("alloc") \/ Calls("get") \/ Calls("free_space"))
          /\ ~qcom_smem_is_available(__smem))
           => /\ last'.ret = "EPROBE_DEFER"
              /\ mem' = mem
              /\ last'.seen = << >> /\ last'.at = 0
              /\ last'.ptr = 0 /\ last'.osize = 0]_vars

C15_Witness ==
    /\ ~qcom_smem_is_available(__smem)
    /\ last.op = "alloc" /\ last.item < SMEM_ITEM_LAST_FIXED
    /\ last.ret = "EPROBE_DEFER"

\* C16: with the heap available, qcom_smem_alloc of an item below
\* SMEM_ITEM_LAST_FIXED or not below item_count returns EINVAL for every
\* host and size, writes nothing and looks at no entry; qcom_smem_get of an
\* item not below item_count returns EINVAL with no pointer and looks at no
\* entry.
C16_ItemRange ==
    [][qcom_smem_is_available(__smem)
           => /\ (Calls("alloc")
                    /\ (ULT(last'.item, SMEM_ITEM_LAST_FIXED)
                           \/ ULE(__smem[1].item_count, last'.item)))
                     => /\ last'.ret = "EINVAL"
                        /\ mem' = mem /\ done' = done
                        /\ last'.seen = << >> /\ last'.at = 0
                        /\ last'.kind = "none"
              /\ (Calls("get") /\ ULE(__smem[1].item_count, last'.item))
                     => /\ last'.ret = "EINVAL"
                        /\ last'.seen = << >>
                        /\ last'.ptr = 0 /\ last'.osize = 0
                        /\ mem' = mem]_vars

C16_Witness ==
    /\ qcom_smem_is_available(__smem)
    /\ last.op = "alloc" /\ last.item < SMEM_ITEM_LAST_FIXED
    /\ last.size = 8 /\ last.host = RemoteHost
    /\ last.ret = "EINVAL"

\* size rounded up to a multiple of 8, as a number, is more than av; a
\* negative size stands for a size_t of at least 2^63
ExceedsAvailable(size, av) == size < 0 \/ 8 * ((size + 7) \div 8) > av

\* C17: qcom_smem_alloc on the legacy heap returns EEXIST when the item's
\* slot is allocated, otherwise ENOMEM when the size rounded up to a multiple
\* of 8 is more than header->available, otherwise 0.
C17_LegacyAlloc ==
    [][(Calls("alloc") /\ last'.kind = "global")
           => LET header == __smem[1].regions[1].virt_base
                  entry == toc_entry(header, last'.item)
              IN  last'.ret =
                      IF Rd32(mem, entry + GE_allocated) # 0 THEN "EEXIST"
                      ELSE IF ExceedsAvailable(last'.size,
                                               Rd32(mem, header + HDR_available))
                      THEN "ENOMEM"
                      ELSE "OK"]_vars

\* C18: publish ordering of the legacy heap.  In every state of the shared
\* region that another processor can observe, a slot of the directory seen
\* as allocated shows the offset and the size this processor wrote for it;
\* for the slot that the last call allocated these are the free offset that
\* the call found and the size rounded up to a multiple of 8.
C18_LegacyPublish ==
    (__smem # << >> /\ __smem[1].global_partition = NoPart)
        => LET header == __smem[1].regions[1].virt_base
               asize == Trunc32(ALIGN(last.size, 8))
           IN  /\ \A item \in ItemsPublish :
                      LET entry == toc_entry(header, item)
                      IN  Rd32(mem, entry + GE_allocated) # 0
                              => /\ Rd32(mem, entry + GE_offset)
                                        = Rd32(View, entry + GE_offset)
                                 /\ Rd32(mem, entry + GE_size)
                                        = Rd32(View, entry + GE_size)
               /\ (/\ last.op = "alloc" /\ last.kind = "global"
                   /\ last.ret = "OK"
                   /\ Rd32(mem, last.at + GE_allocated) # 0)
                      => /\ pc = "idle"
                         /\ Rd32(mem, last.at + GE_size) = asize
                         /\ Rd32(mem, last.at + GE_offset)
                                = Trunc32(Rd32(View, header + HDR_free_offset)
                                          - asize)

\* C18 witness: the slot is seen as allocated while the stores to
\* free_offset and available are still on their way
C18_Witness ==
    /\ last.op = "alloc" /\ last.kind = "global" /\ last.ret = "OK"
    /\ last.size = 8
    /\ Rd32(mem, last.at + GE_allocated) = 1
    /\ Rd32(mem, last.at + GE_offset) = Rd32(mem, fdt.addr + HDR_free_offset)
    /\ Len(wbuf) = 2

\* the slot of the directory that holds address a of the region at header
SlotOf(header, a) == (a - (header + HDR_toc)) \div GE_sizeof

\* C19: no step changes a word of a slot of the directory that was
\* allocated before the step, and the slot that a successful call of
\* qcom_smem_alloc on the legacy heap allocates ends inside the region:
\* offset + size is at most the size of the region.
C19_Directory ==
    [][(__smem # << >> /\ __smem[1].global_partition = NoPart)
           => LET header == __smem[1].regions[1].virt_base
                  toc == {a \in Changed(mem, mem') :
                             /\ a >= header + HDR_toc
                             /\ a < header + HDR_toc + GE_sizeof * SMEM_ITEM_COUNT}
              IN  /\ \A a \in toc :
                         Rd32(mem, toc_entry(header, SlotOf(header, a))
                                      + GE_allocated) = 0
                  /\ (Calls("alloc") /\ last'.kind = "global" /\ last'.ret = "OK")
                         => /\ Rd32(mem', last'.at + GE_allocated) = 1
                            /\ Rd32(mem', last'.at + GE_offset)
                                   + Rd32(mem', last'.at + GE_size)
                                   <= __smem[1].regions[1].size]_vars

\* C19 witness: a slot allocated by this code that ends at the end of the
\* region, next to the slot the boot firmware allocated
C19_Witness ==
    /\ last.op = "alloc" /\ last.kind = "global" /\ last.ret = "OK"
    /\ Rd32(mem, last.at + GE_offset) + Rd32(mem, last.at + GE_size)
           = __smem[1].regions[1].size
    /\ Rd32(mem, last.at + GE_size) > 0
    /\ Rd32(mem, toc_entry(fdt.addr, 10) + GE_allocated) = 1
    /\ Rd32(mem, toc_entry(fdt.addr, 10) + GE_offset) = HDR_sizeof

\* C20: qcom_smem_get on the legacy heap.  For a slot that is not allocated
\* it returns ENXIO, which is neither ENOENT nor EPROBE_DEFER.  For an
\* allocated slot whose aux_base, without its two low bits, is 0 or the
\* aux_base of the region, it returns EINVAL and no pointer when offset +
\* size is more than the size of the region, and otherwise the base of the
\* region plus the offset, with the size of the slot; with an aux_base that
\* names no region it returns ENOENT.
C20_LegacyGet ==
    [][(/\ Calls("get") /\ __smem # << >>
        /\ select_store(__smem[1], last'.host).kind = "global"
        /\ ULT(last'.item, __smem[1].item_count))
           => LET region == __smem[1].regions[1]
                  entry == toc_entry(region.virt_base, last'.item)
                  raw == Rd32(mem, entry + GE_aux_base)
                  aux_base == 4 * (raw \div 4)
                  offset == Rd32(mem, entry + GE_offset)
                  size == Rd32(mem, entry + GE_size)
              IN  IF Rd32(mem, entry + GE_allocated) = 0
                  THEN last'.ret = "ENXIO" /\ last'.ptr = 0
                  ELSE IF aux_base \notin {0, region.aux_base}
                  THEN last'.ret = "ENOENT" /\ last'.ptr = 0
                  ELSE IF offset + size > region.size
                  THEN last'.ret = "EINVAL" /\ last'.ptr = 0
                  ELSE /\ last'.ret = "OK"
                       /\ last'.ptr = region.virt_base + offset
                       /\ last'.want => last'.osize = size
                       /\ Inside(last'.ptr, size,
                                 [base |-> region.virt_base,
                                  size |-> region.size])]_vars

\* C20 witness: the slot is allocated in the region and ends past the
\* region's end, and the call returned an error in place of a pointer
C20_Witness ==
    /\ last.op = "get" /\ last.ret = "EINVAL" /\ last.ptr = 0
    /\ __smem # << >> /\ __smem[1].global_partition = NoPart
    /\ last.item = 10
    /\ Rd32(mem, toc_entry(fdt.addr, 10) + GE_allocated) = 1
    /\ Rd32(mem, toc_entry(fdt.addr, 10) + GE_offset)
           + Rd32(mem, toc_entry(fdt.addr, 10) + GE_size)
           > __smem[1].regions[1].size

\* the header of the store for host: the host's private partition when
\* host is below SMEM_HOST_COUNT and init found one, otherwise the global
\* partition when init found one, otherwise the header of the region
StoreFor(smem, host) ==
    IF ULT(host, SMEM_HOST_COUNT) /\ smem.partitions[host].virt_base # 0
    THEN smem.partitions[host].virt_base
    ELSE IF smem.global_partition.virt_base # 0
    THEN smem.global_partition.virt_base
    ELSE smem.regions[1].virt_base

\* C21: with the heap available and the item in range, qcom_smem_alloc,
\* qcom_smem_get and qcom_smem_get_free_space each work on StoreFor the host
\* they are given, so for one host and one handle they agree.
C21_Dispatch ==
    [][__smem # << >>
           => LET smem == __smem[1]
                  store == StoreFor(smem, last'.host)
                  legacy == store = smem.regions[1].virt_base
              IN  /\ (/\ Calls("alloc")
                      /\ ~ULT(last'.item, SMEM_ITEM_LAST_FIXED)
                      /\ ULT(last'.item, smem.item_count))
                         => IF legacy THEN last'.kind = "global"
                            ELSE last'.kind = "private" /\ last'.base = store
                  /\ (Calls("get") /\ ULT(last'.item, smem.item_count))
                         => last'.at = store
                  /\ Calls("free_space") => last'.at = store]_vars

\* C21 witness: a call for a host with a private partition, on a region
\* that also has a global partition
C21_Witness ==
    /\ __smem # << >>
    /\ __smem[1].global_partition # NoPart
    /\ last.op = "get" /\ last.host = RemoteHost /\ last.ret = "OK"
    /\ last.at = __smem[1].partitions[RemoteHost].virt_base
    /\ last.at # __smem[1].global_partition.virt_base

\* C22: qcom_smem_get_free_space returns, for a host served by a partition,
\* offset_free_cached - offset_free_uncached of that partition, and on the
\* legacy heap header->available; when the cached offset is below the
\* uncached one, or the value is more than the size of the partition or of
\* the region, it returns EINVAL and no byte count.
C22_FreeSpace ==
    [][(Calls("free_space") /\ __smem # << >>)
           => LET smem == __smem[1]
                  store == StoreFor(smem, last'.host)
                  size == IF store = smem.global_partition.virt_base
                          THEN smem.global_partition.size
                          ELSE smem.partitions[last'.host].size
                  ofc == Rd32(mem, store + PH_offset_free_cached)
                  ofu == Rd32(mem, store + PH_offset_free_uncached)
                  available == Rd32(mem, store + HDR_available)
              IN  IF store # smem.regions[1].virt_base
                  THEN IF ofc < ofu \/ ofc - ofu > size
                       THEN last'.ret = "EINVAL" /\ last'.osize = 0
                       ELSE last'.ret = "OK" /\ last'.osize = ofc - ofu
                  ELSE IF available > smem.regions[1].size
                       THEN last'.ret = "EINVAL" /\ last'.osize = 0
                       ELSE last'.ret = "OK" /\ last'.osize = available]_vars

\* the ranges that the handle tracks: the private partitions, the global
\* partition and the region, each with its physical base
TrackedRanges(smem) ==
    {[base |-> smem.partitions[h].virt_base, size |-> smem.partitions[h].size,
      phys |-> smem.partitions[h].phys_base] :
         h \in {k \in DOMAIN smem.partitions : smem.partitions[k].virt_base # 0}}
    \cup (IF smem.global_partition.virt_base = 0 THEN {}
          ELSE {[base |-> smem.global_partition.virt_base,
                 size |-> smem.global_partition.size,
                 phys |-> smem.global_partition.phys_base]})
    \cup {[base |-> smem.regions[1].virt_base, size |-> smem.regions[1].size,
           phys |-> smem.regions[1].aux_base]}

Translates(p) == last.op # "virt_to_phys" /\ last'.op = "virt_to_phys" /\ last'.ptr = p

\* what qcom_smem_virt_to_phys returns for the ranges that hold p
TranslatedBy(smem, p, phys) ==
    LET holding == {r \in TrackedRanges(smem) : r.base <= p /\ p < r.base + r.size}
    IN  IF holding = {} THEN phys = 0
        ELSE \E r \in holding : phys = r.phys + (p - r.base)

\* C23: with the heap available, qcom_smem_virt_to_phys returns 0 for a
\* pointer outside every tracked range, the end of a range included, and
\* otherwise the physical base of a range that holds the pointer plus the
\* pointer's offset in it; a pointer that a successful qcom_smem_get has
\* returned translates to an address inside the partition or region that
\* the call went to.
C23_VirtToPhys ==
    [][(__smem # << >> /\ \E p \in Ptrs \cup {last.ptr} : Translates(p))
           => LET smem == __smem[1]
                  own == {r \in TrackedRanges(smem) : r.base = last.at}
              IN  /\ TranslatedBy(smem, last'.ptr, last'.phys)
                  /\ last.op = "get"
                         => \E r \in own : /\ r.phys <= last'.phys
                                           /\ last'.phys < r.phys + r.size]_vars

\* the table of the region named by the device tree, and its entries
TableAt == fdt.addr + fdt.size - SZ_4K
TableEntries(m) == 0 .. Rd32(m, TableAt + PT_num_entries) - 1
TableEntry(i) == TableAt + PT_entry + PTE_sizeof * i

TableReady(m) ==
    /\ MagicAt(m, TableAt + PT_magic, SMEM_PTABLE_MAGIC)
    /\ Rd32(m, TableAt + PT_version) = 1

\* entry i has an offset and a size
Usable(m, i) ==
    Rd32(m, TableEntry(i) + PTE_offset) # 0 /\ Rd32(m, TableEntry(i) + PTE_size) # 0

Local(m, i) ==
    \/ Rd16(m, TableEntry(i) + PTE_host0) = SMEM_HOST_APPS
    \/ Rd16(m, TableEntry(i) + PTE_host1) = SMEM_HOST_APPS

\* the processor that entry i pairs with the local one
RemoteOf(m, i) ==
    IF Rd16(m, TableEntry(i) + PTE_host0) = SMEM_HOST_APPS
    THEN Rd16(m, TableEntry(i) + PTE_host1)
    ELSE Rd16(m, TableEntry(i) + PTE_host0)

Global(m, i) ==
    /\ Rd16(m, TableEntry(i) + PTE_host0) = SMEM_GLOBAL_HOST
    /\ Rd16(m, TableEntry(i) + PTE_host1) = SMEM_GLOBAL_HOST

\* the entries that qcom_smem_init selects: with version 12 the first usable
\* entry of the global pair, and every usable entry with the local processor
Selected(m, i) ==
    /\ Usable(m, i)
    /\ \/ Local(m, i)
       \/ /\ VersionMajor(m) = SMEM_GLOBAL_PART_VERSION
          /\ Global(m, i)
          /\ \A j \in 0 .. i - 1 : ~(Usable(m, j) /\ Global(m, j))

\* the header that entry i locates agrees with the entry
HeaderAgrees(m, i) ==
    LET e == TableEntry(i)
        h == fdt.addr + Rd32(m, e + PTE_offset)
    IN  /\ MagicAt(m, h + PH_magic, SMEM_PART_MAGIC)
        /\ Rd16(m, h + PH_host0) = Rd16(m, e + PTE_host0)
        /\ Rd16(m, h + PH_host1) = Rd16(m, e + PTE_host1)
        /\ Rd32(m, h + PH_size) = Rd32(m, e + PTE_size)
        /\ Rd32(m, h + PH_offset_free_uncached) <= Rd32(m, h + PH_size)

\* qcom_smem_init gets as far as the table
ReachesTable(m) ==
    /\ HeaderReady(m) /\ TableReady(m)
    /\ VersionMajor(m) \in {SMEM_GLOBAL_HEAP_VERSION, SMEM_GLOBAL_PART_VERSION}

\* C24: when qcom_smem_init reads a table in which a selected entry locates
\* a header with a wrong magic, with hosts or a size that differ from the
\* entry's, or with offset_free_uncached above its size, the call returns
\* EINVAL and installs nothing; a call that succeeds has recorded a
\* partition for every usable entry with the local processor, and none for
\* an entry whose offset or size is 0.
C24_HardFailure ==
    [][(Calls("init") /\ ReachesTable(mem))
           => /\ (\E i \in TableEntries(mem) :
                      Selected(mem, i) /\ ~HeaderAgrees(mem, i))
                     => /\ last'.ret = "EINVAL"
                        /\ __smem' = __smem
              /\ last'.ret = "OK"
                     => /\ \A i \in TableEntries(mem) :
                               (Usable(mem, i) /\ Local(mem, i))
                                   => __smem'[1].partitions[RemoteOf(mem, i)].virt_base
                                          = fdt.addr
                                            + Rd32(mem, TableEntry(i) + PTE_offset)
                        /\ \A h \in DOMAIN __smem'[1].partitions :
                               __smem'[1].partitions[h].virt_base # 0
                                   => \E i \in TableEntries(mem) :
                                          /\ Usable(mem, i) /\ Local(mem, i)
                                          /\ RemoteOf(mem, i) = h]_vars

\* C24 witness: the header of the private partition has a size that differs
\* from the entry's, and the call failed in the enumeration
C24_Witness ==
    /\ last.op = "init" /\ last.ret = "EINVAL" /\ last.stage = "enumerate"
    /\ __smem = << >>
    /\ Selected(mem, 2) /\ Local(mem, 2)
    /\ MagicAt(mem, PrivateHdr + PH_magic, SMEM_PART_MAGIC)
    /\ Rd32(mem, PrivateHdr + PH_size) # Rd32(mem, TableEntry(2) + PTE_size)

\* C25: in every state, each partition that qcom_smem_init has recorded
\* has offset_free_uncached <= offset_free_cached <= size, and its header
\* carries the hosts of a usable table entry that locates it.
C25_PartitionHeader ==
    \A p \in Parts(__smem) :
        LET ofu == Rd32(mem, p.virt_base + PH_offset_free_uncached)
            ofc == Rd32(mem, p.virt_base + PH_offset_free_cached)
        IN  /\ ofu <= ofc
            /\ ofc <= p.size
            /\ \E i \in TableEntries(mem) :
                   /\ Usable(mem, i)
                   /\ fdt.addr + Rd32(mem, TableEntry(i) + PTE_offset) = p.virt_base
                   /\ Rd16(mem, p.virt_base + PH_host0)
                          = Rd16(mem, TableEntry(i) + PTE_host0)
                   /\ Rd16(mem, p.virt_base + PH_host1)
                          = Rd16(mem, TableEntry(i) + PTE_host1)

\* the entries of the uncached list from e on, as far as their canaries
\* are right
RECURSIVE ForwardList(_, _, _, _)
ForwardList(m, e, end, n) ==
    IF ~ULT(e, end) \/ n >= MaxWalk THEN << >>
    ELSE IF Rd16(m, e + PE_canary) # SMEM_PRIVATE_CANARY THEN << >>
    ELSE <<e>> \o ForwardList(m, uncached_entry_next(m, e), end, n + 1)

\* the entries of the cached list from e on, as far as their canaries are
\* right
RECURSIVE BackwardList(_, _, _, _, _)
BackwardList(m, e, end, cacheline, n) ==
    IF ~ULT(end, e) \/ n >= MaxWalk THEN << >>
    ELSE IF Rd16(m, e + PE_canary) # SMEM_PRIVATE_CANARY THEN << >>
    ELSE <<e>> \o BackwardList(m, cached_entry_next(m, e, cacheline), end,
                               cacheline, n + 1)

\* the indices of the entries of list that carry item
Hits(m, list, item) == {i \in 1 .. Len(list) : Rd16(m, list[i] + PE_item) = item}

First(hits) == CHOOSE i \in hits : \A j \in hits : i <= j

\* a call of qcom_smem_get that goes to a partition whose free offsets are
\* in order
GetsFromPartition ==
    /\ Calls("get") /\ __smem # << >>
    /\ ULT(last'.item, __smem[1].item_count)
    /\ last'.at # __smem[1].regions[1].virt_base
    /\ Rd32(mem, last'.at + PH_offset_free_uncached)
           <= Rd32(mem, last'.at + PH_offset_free_cached)

\* C26: qcom_smem_get on a partition whose uncached list holds the item
\* stops at the first entry of that list with the item and returns that
\* entry's data, whatever the cached list holds; it looks at an entry of
\* the cached list only after it has passed over every entry of the
\* uncached list without finding the item.
C26_ForwardFirst ==
    [][GetsFromPartition
           => LET phdr == last'.at
                  fwd == ForwardList(mem, phdr_to_first_uncached_entry(phdr),
                                     phdr_to_last_uncached_entry(mem, phdr), 0)
                  hits == Hits(mem, fwd, last'.item)
                  seen == last'.seen
              IN  /\ hits # {}
                         => /\ seen = SubSeq(fwd, 1, First(hits))
                            /\ last'.ret \in {"OK", "EINVAL"}
                            /\ last'.ret = "OK"
                                   => last'.ptr = uncached_entry_to_item(
                                                      mem, fwd[First(hits)])
                  /\ (\E k \in 1 .. Len(seen) :
                          ULT(phdr_to_last_cached_entry(mem, phdr), seen[k]))
                         => /\ hits = {}
                            /\ Len(seen) > Len(fwd)
                            /\ SubSeq(seen, 1, Len(fwd)) = fwd]_vars

\* C26 witness: the item is in both lists of the partition, and the call
\* returned the data of the entry in the uncached list
C26_Witness ==
    /\ last.op = "get" /\ last.ret = "OK" /\ __smem # << >>
    /\ last.at = __smem[1].partitions[RemoteHost].virt_base
    /\ Rd16(mem, last.at + 96 + PE_item) = last.item
    /\ Rd16(mem, last.at + 96 + PE_canary) = SMEM_PRIVATE_CANARY
    /\ Len(last.seen) = 1
    /\ last.ptr = last.seen[1] + PE_sizeof
    /\ last.seen[1] < phdr_to_last_uncached_entry(mem, last.at)

\* the walk over the uncached list from e on reaches the end of the list
\* over sound entries: entries with the right canary that end at or below hi
RECURSIVE ForwardClean(_, _, _, _, _)
ForwardClean(m, e, end, hi, n) ==
    IF ~ULT(e, end) THEN TRUE
    ELSE IF n >= MaxWalk \/ Rd16(m, e + PE_canary) # SMEM_PRIVATE_CANARY THEN FALSE
    ELSE IF ULT(hi, uncached_entry_next(m, e)) THEN FALSE
    ELSE ForwardClean(m, uncached_entry_next(m, e), end, hi, n + 1)

\* the same for the cached list, whose entries have their data at or above lo
RECURSIVE BackwardClean(_, _, _, _, _, _)
BackwardClean(m, e, end, cacheline, lo, n) ==
    IF ~ULT(end, e) THEN TRUE
    ELSE IF n >= MaxWalk \/ Rd16(m, e + PE_canary) # SMEM_PRIVATE_CANARY THEN FALSE
    ELSE IF ULT(cached_entry_to_item(m, e), lo) THEN FALSE
    ELSE BackwardClean(m, cached_entry_next(m, e, cacheline), end, cacheline, lo,
                       n + 1)

\* the partition that qcom_smem_get went to
PartitionAt(smem, phdr) ==
    CHOOSE p \in Parts(<<smem>>) : p.virt_base = phdr

\* C27: qcom_smem_get on a partition whose two lists are sound.  When the
\* uncached list does not hold the item and the cached list, walked from the
\* end of the partition down to offset_free_cached, holds it in an entry
\* whose padding is within its size, the call returns the address of the
\* first such entry minus the entry's size, and the size minus the padding.  The call returns ENOENT exactly when both
\* lists are sound and neither holds the item.
C27_BackwardLookup ==
    [][(/\ Calls("get") /\ __smem # << >>
        /\ ULT(last'.item, __smem[1].item_count)
        /\ last'.at # __smem[1].regions[1].virt_base)
           => LET phdr == last'.at
                  part == PartitionAt(__smem[1], phdr)
                  first == phdr_to_first_uncached_entry(phdr)
                  end == phdr_to_last_uncached_entry(mem, phdr)
                  cfirst == phdr_to_first_cached_entry(mem, phdr, part.cacheline)
                  cend == phdr_to_last_cached_entry(mem, phdr)
                  fwd == ForwardList(mem, first, end, 0)
                  bwd == BackwardList(mem, cfirst, cend, part.cacheline, 0)
                  fclean == ForwardClean(mem, first, end, phdr + part.size, 0)
                  bclean == BackwardClean(mem, cfirst, cend, part.cacheline, phdr, 0)
                  fhits == Hits(mem, fwd, last'.item)
                  bhits == Hits(mem, bwd, last'.item)
              IN  /\ (/\ fclean /\ bclean /\ fhits = {} /\ bhits # {}
                      /\ Rd16(mem, bwd[First(bhits)] + PE_padding_data)
                             <= Rd32(mem, bwd[First(bhits)] + PE_size))
                         => LET e == bwd[First(bhits)]
                            IN  /\ last'.ret = "OK"
                                /\ last'.ptr = e - Rd32(mem, e + PE_size)
                                /\ last'.want
                                       => last'.osize
                                              = Rd32(mem, e + PE_size)
                                                - Rd16(mem, e + PE_padding_data)
                                /\ last'.seen = fwd \o SubSeq(bwd, 1, First(bhits))
                  /\ last'.ret = "ENOENT"
                         <=> (fclean /\ bclean /\ fhits = {} /\ bhits = {})]_vars

\* C27 witness: item 11 is in the cached list of the global partition only,
\* and the call returned the address below its entry
C27_Witness ==
    /\ last.op = "get" /\ last.ret = "OK" /\ last.want /\ __smem # << >>
    /\ last.at = __smem[1].global_partition.virt_base
    /\ Len(last.seen) = 2
    /\ last.seen[2] = last.at + 96
    /\ Rd16(mem, last.seen[2] + PE_item) = last.item
    /\ Rd16(mem, last.seen[1] + PE_item) # last.item
    /\ last.ptr = last.seen[2] - 8 /\ last.osize = 8

\* C28: every call of qcom_smem_alloc and of qcom_smem_get comes to an end,
\* and its walk of a list visits no entry twice.
C28_Terminates ==
    [][(Calls("get") \/ Calls("alloc"))
          => /\ last'.ret # "HANG"
             /\ \A i, j \in 1..Len(last'.seen) :
                    last'.seen[i] = last'.seen[j] => i = j]_vars

\* C29: when qcom_parse_memory turns to the SMEM and qcom_smem_init fails or
\* the lookup of item 402 returns an error, no part of the table is read
\* through what the lookup returned, qcom_parse_memory_smem returns an
\* error, the boot goes on and the layout is the one of the device tree.
C29_NonFatal ==
    [][(/\ Calls("parse_memory")
        /\ last'.dram[1].smem # "none"
        /\ last'.dram[1].lookup # "OK")
          => /\ last'.dram[1].read = 0
             /\ last'.dram[1].smem # "OK"
             /\ last'.ret = "OK"
             /\ last'.dram[1].source = "dt"]_vars

\* the usable entries of the table that pair the local processor with h
EntriesOf(m, h) ==
    {i \in TableEntries(m) : Usable(m, i) /\ Local(m, i) /\ RemoteOf(m, i) = h}

\* C30: a call of qcom_smem_init that reads a table with two usable entries
\* pairing the local processor with the same remote processor fails and
\* installs nothing; after a call that succeeds, every partition recorded
\* for a remote processor comes from the one usable entry of that pair.
C30_Unique ==
    [][(Calls("init") /\ TableReady(mem))
           => /\ (\E i, j \in TableEntries(mem) :
                      /\ i # j
                      /\ Usable(mem, i) /\ Local(mem, i)
                      /\ Usable(mem, j) /\ Local(mem, j)
                      /\ RemoteOf(mem, i) = RemoteOf(mem, j))
                     => /\ last'.ret # "OK"
                        /\ __smem' = __smem
              /\ last'.ret = "OK"
                     => \A h \in DOMAIN __smem'[1].partitions :
                            __smem'[1].partitions[h].virt_base # 0
                                => \E i \in TableEntries(mem) :
                                       /\ EntriesOf(mem, h) = {i}
                                       /\ __smem'[1].partitions[h].virt_base
                                              = fdt.addr
                                                + Rd32(mem, TableEntry(i) + PTE_offset)]_vars

\* C30 witness: entries 0 and 2 pair the local processor with RemoteHost,
\* each locates a header of its own that agrees with it, and the call
\* failed in the enumeration
C30_Witness ==
    /\ last.op = "init" /\ last.ret = "EINVAL" /\ last.stage = "enumerate"
    /\ __smem = << >>
    /\ EntriesOf(mem, RemoteHost) = {0, 2}
    /\ Rd32(mem, TableEntry(0) + PTE_offset) # Rd32(mem, TableEntry(2) + PTE_offset)
    /\ HeaderAgrees(mem, 0) /\ HeaderAgrees(mem, 2)

\* the table at the end of the 1 MiB region holds, as its one entry, a
\* 64 KiB partition of the pair <<host0, host1>> that its header agrees with
ExampleTable(m, host0, host1) ==
    /\ fdt.node /\ fdt.addr = RegionBase /\ fdt.size = 1024 * 1024
    /\ HeaderReady(m) /\ TableReady(m)
    /\ VersionMajor(m) = SMEM_GLOBAL_PART_VERSION
    /\ TableEntries(m) = {0}
    /\ Rd32(m, TableEntry(0) + PTE_size) = 64 * 1024
    /\ Rd16(m, TableEntry(0) + PTE_host0) = host0
    /\ Rd16(m, TableEntry(0) + PTE_host1) = host1
    /\ Usable(m, 0) /\ HeaderAgrees(m, 0)

\* the steps of the scenario on the partition of the pair <<host0, host1>>:
\* qcom_smem_init returns 0; with an empty uncached list
\* qcom_smem_alloc(APPS, 402, 384) returns 0 and adds sizeof(entry) + 384
\* to offset_free_uncached, after which qcom_smem_get(APPS, 402, &size)
\* gives size 384 and qcom_smem_alloc(APPS, 402, 1) returns EEXIST
ExampleScenario(host0, host1) ==
    LET hdr == fdt.addr + Rd32(mem, TableEntry(0) + PTE_offset)
        cursor == Rd32(mem, hdr + PH_offset_free_uncached)
        e == hdr + PH_sizeof
    IN  ExampleTable(mem, host0, host1)
           => /\ Calls("init") => last'.ret = "OK"
              /\ (/\ Calls("alloc") /\ __smem # << >>
                  /\ last'.host = SMEM_HOST_APPS
                  /\ last'.item = SMEM_USABLE_RAM_PARTITION_TABLE)
                     => /\ (last'.size = 384 /\ cursor = PH_sizeof)
                               => /\ last'.ret = "OK"
                                  /\ Rd32(mem', hdr + PH_offset_free_uncached)
                                         = cursor + PE_sizeof + 384
                                  /\ LET g == qcom_smem_get(mem', __smem, SMEM_HOST_APPS,
                                                  SMEM_USABLE_RAM_PARTITION_TABLE, TRUE)
                                     IN  g.ret = "OK" /\ g.size = 384
                        /\ (/\ last'.size = 1 /\ cursor = PH_sizeof + PE_sizeof + 384
                            /\ Rd16(mem, e + PE_item) = SMEM_USABLE_RAM_PARTITION_TABLE)
                               => last'.ret = "EEXIST" /\ mem' = mem
              /\ (/\ Calls("get") /\ __smem # << >>
                  /\ last'.host = SMEM_HOST_APPS
                  /\ last'.item = SMEM_USABLE_RAM_PARTITION_TABLE
                  /\ cursor = PH_sizeof + PE_sizeof + 384
                  /\ Rd16(mem, e + PE_item) = SMEM_USABLE_RAM_PARTITION_TABLE)
                     => /\ last'.ret = "OK" /\ last'.osize = 384
                        /\ last'.ptr = e + PE_sizeof

\* C31: the scenario on a table whose one partition is that of the pair
\* (APPS, GLOBAL): qcom_smem_init succeeds, qcom_smem_alloc(APPS, 402, 384)
\* succeeds and advances offset_free_uncached by sizeof(entry) + 384,
\* qcom_smem_get(APPS, 402) returns size 384 and a second
\* qcom_smem_alloc(APPS, 402, 1) returns EEXIST.
C31_Example == [][ExampleScenario(SMEM_HOST_APPS, SMEM_GLOBAL_HOST)]_vars

\* C31, amended: the same scenario holds when the one partition is the
\* global partition, the pair (GLOBAL, GLOBAL), which qcom_smem_alloc and
\* qcom_smem_get use for APPS as for every host without a partition.
C31_ExampleGlobal == [][ExampleScenario(SMEM_GLOBAL_HOST, SMEM_GLOBAL_HOST)]_vars

\* C31 witness: on the global partition of 64 KiB item 402 was allocated
\* with 384 bytes, and the second allocation has returned EEXIST
C31_Witness ==
    /\ ExampleTable(mem, SMEM_GLOBAL_HOST, SMEM_GLOBAL_HOST)
    /\ last.op = "alloc" /\ last.ret = "EEXIST"
    /\ last.host = SMEM_HOST_APPS /\ last.item = SMEM_USABLE_RAM_PARTITION_TABLE
    /\ last.size = 1
    /\ Rd32(mem, ExampleHdr + PH_offset_free_uncached) = PH_sizeof + PE_sizeof + 384
    /\ Rd32(mem, ExampleHdr + PH_sizeof + PE_size) = 384

\* what qcom_parse_memory_smem would return in this state
SmemLayout == qcom_parse_memory_smem(View, fdt, __smem, NoBanks, 0, "none")

\* C32: a call of qcom_parse_memory that finds the /memory node and its reg
\* takes the layout of the node when the FDT is internal and the node names
\* a bank; takes the layout of the SMEM when the FDT is external and the
\* SMEM holds one; and whenever qcom_parse_memory_smem fails it goes on with
\* the layout of the node.
C32_SourceSelection ==
    [][(/\ Calls("parse_memory")
        /\ ~(last'.dram[1].source = "none" /\ last'.ret = "OK"))
          => /\ (last'.want /\ last'.dram[1].smem = "none")
                    => last'.dram[1].source = "dt"
             /\ (/\ ~last'.want
                 /\ SmemLayout.ret = "OK" /\ SmemLayout.lookup = "OK"
                 /\ SmemLayout.j > 0)
                    => /\ last'.dram[1].source = "smem"
                       /\ last'.dram[1].banks = sort_banks(SmemLayout.banks, 0,
                                                           SmemLayout.j)
             /\ last'.dram[1].smem \notin {"none", "OK"}
                    => last'.ret = "OK" /\ last'.dram[1].source = "dt"]_vars

\* size rounded up to a multiple of 8, for a size below 2^63
AlignUp8(size) == 8 * ((size + 7) \div 8)

\* a call of qcom_smem_alloc with a valid item goes to the partition at
\* last'.base, whose free offsets are in order within its size and whose
\* uncached list has the canary in every entry, ends at
\* offset_free_uncached and does not hold the item
AllocOnCleanPartition ==
    LET phdr == last'.base
        first == phdr_to_first_uncached_entry(phdr)
        end == phdr_to_last_uncached_entry(mem, phdr)
    IN  /\ Calls("alloc") /\ last'.kind = "private"
        /\ Rd32(mem, phdr + PH_offset_free_uncached)
               <= Rd32(mem, phdr + PH_offset_free_cached)
        /\ Rd32(mem, phdr + PH_offset_free_cached) <= Rd32(mem, phdr + PH_size)
        /\ PH_sizeof <= Rd32(mem, phdr + PH_offset_free_uncached)
        /\ ForwardClean(mem, first, end, end, 0)
        /\ Hits(mem, ForwardList(mem, first, end, 0), last'.item) = {}

\* the entry and size bytes rounded up to 8 fit between the free offsets
FitsGap(m, phdr, size) ==
    /\ size >= 0
    /\ Rd32(m, phdr + PH_offset_free_uncached) + PE_sizeof + AlignUp8(size)
           <= Rd32(m, phdr + PH_offset_free_cached)

\* C33: on such a partition qcom_smem_alloc returns 0 exactly when
\* offset_free_uncached + sizeof(entry) + size rounded up to 8 is at most
\* offset_free_cached, and ENOSPC otherwise; an allocation that fills the
\* gap leaves offset_free_uncached equal to offset_free_cached.
C33_ExactCondition ==
    [][AllocOnCleanPartition
          => LET phdr == last'.base
             IN  /\ last'.ret = IF FitsGap(mem, phdr, last'.size) THEN "OK"
                                ELSE "ENOSPC"
                 /\ (/\ last'.size >= 0
                     /\ Rd32(mem, phdr + PH_offset_free_uncached) + PE_sizeof
                            + AlignUp8(last'.size)
                        = Rd32(mem, phdr + PH_offset_free_cached))
                        => Rd32(mem', phdr + PH_offset_free_uncached)
                               = Rd32(mem', phdr + PH_offset_free_cached)]_vars

\* C34: a call of qcom_smem_alloc that returns 0 on a partition has written,
\* at the offset_free_uncached it found, an entry with the canary, the item,
\* size rounded up to 8 as its size, the difference to size as its data
\* padding and header padding 0; offset_free_uncached has grown by
\* sizeof(entry) plus the rounded size and qcom_smem_get_free_space of the
\* host has shrunk by as much; the entry is the last of the uncached list,
\* which ends at the new offset_free_uncached.
C34_AllocEffect ==
    [][(Calls("alloc") /\ last'.kind = "private" /\ last'.ret = "OK")
          => LET phdr == last'.base
                 ofu == Rd32(mem, phdr + PH_offset_free_uncached)
                 hdr == phdr + ofu
                 list == ForwardList(mem', phdr_to_first_uncached_entry(phdr),
                                     phdr_to_last_uncached_entry(mem', phdr), 0)
                 before == qcom_smem_get_free_space(mem, __smem, last'.host)
                 after == qcom_smem_get_free_space(mem', __smem, last'.host)
             IN  /\ last'.size >= 0
                 /\ Rd16(mem', hdr + PE_canary) = SMEM_PRIVATE_CANARY
                 /\ Rd16(mem', hdr + PE_item) = last'.item
                 /\ Rd32(mem', hdr + PE_size) = AlignUp8(last'.size)
                 /\ Rd16(mem', hdr + PE_padding_data) = AlignUp8(last'.size) - last'.size
                 /\ Rd16(mem', hdr + PE_padding_hdr) = 0
                 /\ Rd32(mem', phdr + PH_offset_free_uncached)
                        = ofu + PE_sizeof + AlignUp8(last'.size)
                 /\ before.ret = "OK" /\ after.ret = "OK"
                 /\ after.value = before.value - (PE_sizeof + AlignUp8(last'.size))
                 /\ list # << >> /\ list[Len(list)] = hdr
                 /\ uncached_entry_next(mem', hdr)
                        = phdr_to_last_uncached_entry(mem', phdr)]_vars

\* C35: the size arithmetic of qcom_smem_alloc does not wrap.  A call that
\* returns 0 was given a size whose rounding up to 8 is representable, and
\* has stored exactly that rounded size: on a partition the entry's size is
\* size rounded up to 8 and size minus data padding is the size asked for; on
\* the legacy heap the slot's size is size rounded up to 8.  A negative size
\* stands for a size_t of at least 2^63.
C35_NoWrap ==
    [][(Calls("alloc") /\ last'.ret = "OK")
          => /\ last'.size >= 0
             /\ IF last'.kind = "private"
                THEN /\ Rd32(mem', last'.at + PE_size) = AlignUp8(last'.size)
                     /\ Rd32(mem', last'.at + PE_size)
                            - Rd16(mem', last'.at + PE_padding_data) = last'.size
                ELSE Rd32(mem', last'.at + GE_size) = AlignUp8(last'.size)]_vars

\* host has no partition of its own: its items live in the global partition
\* or on the legacy heap
Shared(smem, host) ==
    ~(ULT(host, SMEM_HOST_COUNT) /\ smem.partitions[host].virt_base # 0)

\* the hosts of a call, and two host numbers past the last partition
HostsBeyond == Hosts \cup {SMEM_HOST_COUNT, SMEM_HOST_COUNT + 1}

\* C36: items are named per store, not per host.  After qcom_smem_alloc(h1,
\* item, _) has returned 0 for a host h1 without a partition of its own, for
\* every host h2 without one (numbers from SMEM_HOST_COUNT on and
\* QCOM_SMEM_HOST_ANY among them) qcom_smem_alloc(h2, item, _) returns EEXIST
\* and qcom_smem_get(h2, item) returns what qcom_smem_get(h1, item) returns;
\* after it has returned 0 for a host with a partition of its own,
\* qcom_smem_get of a host served by another store does not return the new
\* item.
C36_Namespace ==
    [][(Calls("alloc") /\ last'.ret = "OK")
          => LET smem == __smem[1]
                 h1 == last'.host
                 g1 == qcom_smem_get(mem', __smem, h1, last'.item, TRUE)
             IN  \A h2 \in HostsBeyond :
                     LET g2 == qcom_smem_get(mem', __smem, h2, last'.item, TRUE)
                     IN  /\ (Shared(smem, h1) /\ Shared(smem, h2))
                                => /\ \A size \in Sizes, beyond \in BOOLEAN :
                                          qcom_smem_alloc(mem', __smem, h2, last'.item,
                                                          size, beyond).ret = "EEXIST"
                                   /\ g1.ret = "OK"
                                   /\ g2 = g1
                         /\ (~Shared(smem, h1) /\ g2.store # g1.store)
                                => /\ g2 = qcom_smem_get(mem, __smem, h2, last'.item, TRUE)
                                   /\ g2.ret = "OK"
                                          => g2.ptr # uncached_entry_to_item(mem', last'.at)]_vars

\* a lies in [lo, lo + n)
Within(a, lo, n) == lo <= a /\ a < lo + n

\* C37: items are stable.  A call of qcom_smem_alloc leaves every item that
\* qcom_smem_get returned before it where it was: the same pointer, the same
\* size, the same data bytes.  On a partition it changes nothing but the
\* offset_free_uncached field and bytes between the old offset_free_uncached
\* and offset_free_cached, so no entry of either list, no data of an item and
\* not offset_free_cached.  A call of qcom_smem_get changes nothing.
C37_Stable ==
    [][/\ Calls("alloc")
          => /\ \A host \in Hosts, item \in ItemsRemote :
                    LET g == qcom_smem_get(mem, __smem, host, item, TRUE)
                        h == qcom_smem_get(mem', __smem, host, item, TRUE)
                    IN  g.ret = "OK"
                           => /\ h.ret = "OK" /\ h.ptr = g.ptr /\ h.size = g.size
                              /\ \A a \in Changed(mem, mem') : ~Within(a, g.ptr, g.size)
             /\ last'.kind = "private"
                   => LET phdr == last'.base
                          ofu == Rd32(mem, phdr + PH_offset_free_uncached)
                          ofc == Rd32(mem, phdr + PH_offset_free_cached)
                      IN  \A a \in Changed(mem, mem') :
                              \/ Within(a, phdr + PH_offset_free_uncached, 4)
                              \/ Within(a, phdr + ofu, ofc - ofu)
             /\ __smem' = __smem
       /\ Calls("get") => (mem' = mem /\ __smem' = __smem)]_vars

\* [a, a + an) and [b, b + bn) have no byte in common
Disjoint(a, an, b, bn) == a + an <= b \/ b + bn <= a

\* the bytes of the uncached entry e: its header and its padded data
EntryBytes(m, e) == PE_sizeof + Rd32(m, e + PE_size)

\* the entries of the uncached list of the partition at phdr
UncachedList(m, phdr) ==
    ForwardList(m, phdr_to_first_uncached_entry(phdr),
                phdr_to_last_uncached_entry(m, phdr), 0)

\* the items of the directory that are allocated
Allocated(m, header) ==
    {item \in Items \cup ItemsRemote :
        /\ item < SMEM_ITEM_COUNT
        /\ Rd32(m, toc_entry(header, item) + GE_allocated) # 0}

\* C38: items do not overlap.  In every partition the entries of the
\* uncached list, header and padded data, are pairwise disjoint, begin after
\* the partition header and end at or below offset_free_cached; on the
\* legacy heap the ranges [offset, offset + size) of the allocated slots of
\* the directory are pairwise disjoint.
C38_NonOverlap ==
    __smem # << >>
        => /\ \A part \in Parts(__smem) :
                  LET phdr == part.virt_base
                      list == UncachedList(mem, phdr)
                      cached == phdr_to_last_cached_entry(mem, phdr)
                  IN  \A i \in 1 .. Len(list) :
                          /\ phdr + PH_sizeof <= list[i]
                          /\ list[i] + EntryBytes(mem, list[i]) <= cached
                          /\ \A j \in 1 .. Len(list) :
                                 i < j => Disjoint(list[i], EntryBytes(mem, list[i]),
                                                   list[j], EntryBytes(mem, list[j]))
           /\ __smem[1].global_partition.virt_base = 0
                 => LET header == __smem[1].regions[1].virt_base
                        off(item) == Rd32(mem, toc_entry(header, item) + GE_offset)
                        len(item) == Rd32(mem, toc_entry(header, item) + GE_size)
                    IN  \A i, j \in Allocated(mem, header) :
                            i # j => Disjoint(off(i), len(i), off(j), len(j))

\* C39: qcom_smem_virt_to_phys before any successful qcom_smem_init.  While
\* __smem is NULL the call returns 0 for every pointer and does not read
\* through __smem, so it neither faults nor returns an address.
C39_NoHandle ==
    [][(last'.op = "virt_to_phys" /\ last.op # "virt_to_phys" /\ __smem = << >>)
           => (last'.ret = "OK" /\ last'.phys = 0)]_vars

====
